---- MODULE Spec2Model ----
(***************************************************************************)
(* dental-lead-engine: the webhook-driven enrichment pipeline of           *)
(* src/server.js (dispatcher mapLimit, upsertLead, the run lifecycle and   *)
(* the webhook handler), as a state machine.                               *)
(*                                                                         *)
(* Node runs the handlers on one thread: code between two awaits is one    *)
(* atomic step, and the steps of different async functions interleave at   *)
(* the awaits.  An action below is the code from one await to the next.    *)
(***************************************************************************)
EXTENDS Integers, Sequences, FiniteSets, Bags, TLC

NULL == "null"
UNDEF == "undefined"

\* `existing` when a lookup found nothing (row ids start at 1)
NoRow == 0

Max(a, b) == IF a >= b THEN a ELSE b
Min(a, b) == IF a <= b THEN a ELSE b

(***************************************************************************)
(* JavaScript values.  NULL stands for null, UNDEF for undefined (a field   *)
(* the object lacks); strings are TLA+ strings, handled character by       *)
(* character.                                                              *)
(***************************************************************************)
\* JavaScript truthiness of a string-or-null value
Truthy(v) == v # NULL /\ v # UNDEF /\ v # ""

\* a || b on string-or-null values
Or(a, b) == IF Truthy(a) THEN a ELSE b

\* an absent (undefined) number
NoNum == 0 - 1

\* a || b on number-or-undefined values
OrNum(a, b) == IF a # NoNum /\ a # 0 THEN a ELSE b

Chars(s) == [k \in 1..Len(s) |-> SubSeq(s, k, k)]

Uppers == "ABCDEFGHIJKLMNOPQRSTUVWXYZ"
Lowers == "abcdefghijklmnopqrstuvwxyz"

UpperToLower ==
  [c \in {SubSeq(Uppers, k, k) : k \in 1..26} |->
     LET k == CHOOSE j \in 1..26 : SubSeq(Uppers, j, j) = c
     IN SubSeq(Lowers, k, k)]

LowerChar(c) == IF c \in DOMAIN UpperToLower THEN UpperToLower[c] ELSE c

\* String.prototype.toLowerCase, on the alphabet of the model's strings
RECURSIVE ToLower(_)
ToLower(s) ==
  IF Len(s) = 0 THEN ""
  ELSE LowerChar(SubSeq(s, 1, 1)) \o ToLower(SubSeq(s, 2, Len(s)))

StartsWith(s, pre) ==
  Len(pre) <= Len(s) /\ SubSeq(s, 1, Len(pre)) = pre

\* String.prototype.indexOf, 1-based; 0 when sub does not occur
IndexOf(s, sub) ==
  LET hits == {k \in 1..(Len(s) - Len(sub) + 1) :
                 SubSeq(s, k, k + Len(sub) - 1) = sub}
  IN IF hits = {} THEN 0 ELSE CHOOSE k \in hits : \A j \in hits : k <= j

\* String.prototype.includes
Includes(s, sub) == Len(sub) = 0 \/ IndexOf(s, sub) # 0

\* new URL(url).hostname: NULL when the constructor throws.  The model's
\* URLs are `scheme://host[/path]`; a string without a scheme does not
\* parse.  The URL parser lowercases the host.
Hostname(url) ==
  LET p == IndexOf(url, "://")
  IN IF p <= 1 THEN NULL
     ELSE LET rest == SubSeq(url, p + 3, Len(url))
              q == IndexOf(rest, "/")
              host == IF q = 0 THEN rest ELSE SubSeq(rest, 1, q - 1)
          IN IF Len(host) = 0 THEN NULL ELSE ToLower(host)

\* a plausible slip: the `www.` prefix is kept
domainFromKeepWww(url) ==
  IF ~Truthy(url) THEN NULL
  ELSE LET host == Hostname(url)
       IN IF host = NULL THEN NULL ELSE ToLower(host)

\* a plausible slip: a URL that does not parse is taken as its own domain
domainFromUnparsed(url) ==
  IF ~Truthy(url) THEN NULL
  ELSE LET host == Hostname(url)
       IN IF host = NULL THEN ToLower(url)
          ELSE ToLower(IF StartsWith(host, "www.")
                       THEN SubSeq(host, 5, Len(host)) ELSE host)

\* domainFrom (src/server.js:88-91)
domainFrom(url) ==
  IF ~Truthy(url) THEN NULL
  ELSE LET host == Hostname(url)
       IN IF host = NULL THEN NULL
          ELSE ToLower(IF StartsWith(host, "www.")
                       THEN SubSeq(host, 5, Len(host)) ELSE host)


(***************************************************************************)
(* Feature detection and scoring (src/scoring.js)                          *)
(***************************************************************************)
AnyOf(t, subs) == \E x \in subs : Includes(t, x)

\* /fill out.*online/: "fill out", then "online" later in the text
FillOutOnline(t) ==
  LET k == IndexOf(t, "fill out")
  IN k # 0 /\ Includes(SubSeq(t, k + 8, Len(t)), "online")

FlagNames ==
  <<"has_online_scheduling", "has_patient_portal", "has_text_reminders",
    "has_digital_forms", "has_online_payments", "has_virtual_consults",
    "has_advanced_imaging">>

TagOf ==
  [has_online_scheduling |-> "onlineScheduling",
   has_patient_portal |-> "patientPortal",
   has_text_reminders |-> "textReminders",
   has_digital_forms |-> "digitalForms",
   has_online_payments |-> "onlinePayments",
   has_virtual_consults |-> "virtualConsults",
   has_advanced_imaging |-> "advancedDentalTech"]

RECURSIVE TagsFrom(_, _)
TagsFrom(f, names) ==
  IF names = <<>> THEN <<>>
  ELSE (IF f[Head(names)] THEN <<TagOf[Head(names)]>> ELSE <<>>)
         \o TagsFrom(f, Tail(names))

\* detectFeatures (src/scoring.js:1-31)
detectFeatures(text) ==
  LET t == ToLower(text)
      f == [has_online_scheduling |->
              AnyOf(t, {"book online", "schedule online", "book appointment",
                        "book now", "zocdoc", "localmed", "doctible",
                        "nexhealth", "jane app", "setmore", "calendly"}),
            has_patient_portal |->
              AnyOf(t, {"patient portal", "patient login", "my chart",
                        "patient account"}),
            has_text_reminders |->
              AnyOf(t, {"text reminders", "sms reminder", "text notification",
                        "weave", "revenuewell", "solutionreach", "yapi"}),
            has_digital_forms |->
              AnyOf(t, {"online forms", "digital forms", "paperless"})
                \/ FillOutOnline(t),
            has_online_payments |->
              AnyOf(t, {"pay online", "online payment", "carecredit",
                        "care credit", "financing"}),
            has_virtual_consults |->
              AnyOf(t, {"virtual consultation", "video consultation",
                        "teledentistry", "telehealth"}),
            has_advanced_imaging |->
              AnyOf(t, {"3d imaging", "cbct", "cerec", "same day crown",
                        "digital impression", "itero", "laser"})]
  IN [flags |-> f, technologies |-> TagsFrom(f, FlagNames)]

NoFlags == [n \in {FlagNames[k] : k \in 1..7} |-> FALSE]

\* a plausible slip: advanced imaging weighs 15
computeTechScoreImaging15(f) ==
  Min(100,
      (IF f.has_online_scheduling THEN 25 ELSE 0)
      + (IF f.has_patient_portal THEN 20 ELSE 0)
      + (IF f.has_text_reminders THEN 15 ELSE 0)
      + (IF f.has_digital_forms THEN 10 ELSE 0)
      + (IF f.has_online_payments THEN 10 ELSE 0)
      + (IF f.has_virtual_consults THEN 10 ELSE 0)
      + (IF f.has_advanced_imaging THEN 15 ELSE 0))

\* computeTechScore (src/scoring.js:33-43)
computeTechScore(f) ==
  Min(100,
      (IF f.has_online_scheduling THEN 25 ELSE 0)
      + (IF f.has_patient_portal THEN 20 ELSE 0)
      + (IF f.has_text_reminders THEN 15 ELSE 0)
      + (IF f.has_digital_forms THEN 10 ELSE 0)
      + (IF f.has_online_payments THEN 10 ELSE 0)
      + (IF f.has_virtual_consults THEN 10 ELSE 0)
      + (IF f.has_advanced_imaging THEN 10 ELSE 0))

\* Math.round of the rational num/den, den > 0: halves go up
RoundDiv(num, den) == (2 * num + den) \div (2 * den)

\* a plausible slip: the weights of the booking and the rating sub-scores
\* are 0.10 and the weight of the reviews sub-score is 0.20
subscoresOtherWeights(techScore, rating10, reviews, hasBooking, specialtyBoost) ==
  LET sTech == techScore
      sBooking == IF hasBooking THEN 100 ELSE 0
      sRating3 == Max(0, Min(300, (rating10 - 35) * 20))
      sReviews == IF reviews >= 200 THEN 100
                  ELSE IF reviews >= 100 THEN 80
                  ELSE IF reviews >= 50 THEN 60
                  ELSE IF reviews >= 25 THEN 40
                  ELSE IF reviews >= 10 THEN 20 ELSE 0
      sSpecial == Max(0, Min(100, specialtyBoost))
      final == RoundDiv(40 * 3 * sTech + 10 * 3 * sBooking + 10 * sRating3
                          + 20 * 3 * sReviews + 20 * 3 * sSpecial, 300)
  IN [sTech |-> sTech, sBooking |-> sBooking, sRating3 |-> sRating3,
      sReviews |-> sReviews, sSpecial |-> sSpecial, final |-> final]

\* a plausible slip: the specialty boost is not clamped
subscoresUnclamped(techScore, rating10, reviews, hasBooking, specialtyBoost) ==
  LET sTech == techScore
      sBooking == IF hasBooking THEN 100 ELSE 0
      sRating3 == Max(0, Min(300, (rating10 - 35) * 20))
      sReviews == IF reviews >= 200 THEN 100
                  ELSE IF reviews >= 100 THEN 80
                  ELSE IF reviews >= 50 THEN 60
                  ELSE IF reviews >= 25 THEN 40
                  ELSE IF reviews >= 10 THEN 20 ELSE 0
      sSpecial == specialtyBoost
      final == RoundDiv(40 * 3 * sTech + 15 * 3 * sBooking + 15 * sRating3
                          + 10 * 3 * sReviews + 20 * 3 * sSpecial, 300)
  IN [sTech |-> sTech, sBooking |-> sBooking, sRating3 |-> sRating3,
      sReviews |-> sReviews, sSpecial |-> sSpecial, final |-> final]

\* subscores (src/scoring.js:45-53).  The rating is held in tenths of a
\* star (45 is 4.5); sRating3 is three times the rating sub-score, so that
\* ((rating - 3.5) / 1.5) * 100 stays an integer.
subscores(techScore, rating10, reviews, hasBooking, specialtyBoost) ==
  LET sTech == techScore
      sBooking == IF hasBooking THEN 100 ELSE 0
      sRating3 == Max(0, Min(300, (rating10 - 35) * 20))
      sReviews == IF reviews >= 200 THEN 100
                  ELSE IF reviews >= 100 THEN 80
                  ELSE IF reviews >= 50 THEN 60
                  ELSE IF reviews >= 25 THEN 40
                  ELSE IF reviews >= 10 THEN 20 ELSE 0
      sSpecial == Max(0, Min(100, specialtyBoost))
      final == RoundDiv(40 * 3 * sTech + 15 * 3 * sBooking + 15 * sRating3
                          + 10 * 3 * sReviews + 20 * 3 * sSpecial, 300)
  IN [sTech |-> sTech, sBooking |-> sBooking, sRating3 |-> sRating3,
      sReviews |-> sReviews, sSpecial |-> sSpecial, final |-> final]

\* a plausible slip: the lower bounds are exclusive
tierFromScoreExclusive(score) ==
  IF score > 80 THEN [tier |-> "PLATINUM", qual |-> "HOT"]
  ELSE IF score > 60 THEN [tier |-> "GOLD", qual |-> "HOT"]
  ELSE IF score > 40 THEN [tier |-> "SILVER", qual |-> "WARM"]
  ELSE IF score > 20 THEN [tier |-> "BRONZE", qual |-> "COOL"]
  ELSE [tier |-> "BASIC", qual |-> "COLD"]

\* tierFromScore (src/scoring.js:55-61)
tierFromScore(score) ==
  IF score >= 80 THEN [tier |-> "PLATINUM", qual |-> "HOT"]
  ELSE IF score >= 60 THEN [tier |-> "GOLD", qual |-> "HOT"]
  ELSE IF score >= 40 THEN [tier |-> "SILVER", qual |-> "WARM"]
  ELSE IF score >= 20 THEN [tier |-> "BRONZE", qual |-> "COOL"]
  ELSE [tier |-> "BASIC", qual |-> "COLD"]

\* Array.prototype.includes on a sequence
SeqHas(q, x) == \E k \in 1..Len(q) : q[k] = x

(***************************************************************************)
(* The classifier (src/llm.js)                                             *)
(***************************************************************************)
EmptyLLM == [specialties |-> <<>>, notes |-> ""]

\* runModel (src/llm.js:4-25) on the answer of messages.create: an answer
\* is [kind |-> "json", specialties, notes] when its text parses as JSON
\* with those properties, [kind |-> "garbage"] when JSON.parse throws
runModel(answer) ==
  IF answer.kind = "json"
  THEN [specialties |-> answer.specialties, notes |-> answer.notes]
  ELSE EmptyLLM

\* enrichWithLLM (src/llm.js:27-39), given the two models' answers
enrichWithLLM(siteText, haiku, sonnet) ==
  LET out == runModel(haiku)
      tooWeak == Len(out.specialties) = 0 /\ Len(siteText) > 800
  IN IF tooWeak /\ Len(runModel(sonnet).specialties) > 0
     THEN runModel(sonnet) ELSE out


(***************************************************************************)
(* Bounds of the model.                                                    *)
(***************************************************************************)
MaxN == 4         \* longest item list handed to a stand-alone mapLimit
MaxLimit == 3     \* largest limit handed to a stand-alone mapLimit
MaxUpserts == 3   \* number of stand-alone upsertLead calls
MaxDeliveries == 2 \* webhook POSTs received
MaxSubmits == 1   \* submissions (POST /api/generate) received
MaxOverlap == 1   \* deliveries being processed at the same time
MaxFaults == 1    \* steps at which an external service fails

\* the limit the webhook handler passes: mapLimit(items, 3, ...)
WebhookLimit == 3

Limits == (0 - 1)..MaxLimit
H == 1..MaxDeliveries
G == 1..MaxSubmits
W == 1..(Max(WebhookLimit, MaxLimit) + 1)

VARIABLES
  mlItems,    \* h -> the items array handed to mapLimit
  mlLimit,    \* h -> the limit argument
  mlNext,     \* h -> the shared counter i
  mlPromise,  \* h -> state of the promise mapLimit returns
  wpc,        \* h -> w -> position of worker w
  widx,       \* h -> w -> the index worker w holds (idx)
  invoked,    \* h -> idx -> number of iterator invocations on items[idx]
  outcome     \* h -> idx -> "none" | "running" | "returned" | "thrown"

VARIABLES
  leads,      \* table dental_leads: row id = position
  techs,      \* table lead_tech_analysis
  events,     \* table lead_events: append-only and never read back, so a
              \* bag of rows
  runs        \* table lead_runs

VARIABLES
  uPc,        \* a stand-alone upsertLead call: "idle" | "lookup" | "write"
  uBase,      \* its argument
  uExisting,  \* its local `existing` (a row id, or NoRow)
  uResults    \* what the calls made so far returned, in order

VARIABLES
  jobs,       \* the external job service: run id -> status of the crawl run
  dsItems,    \* the external job service: dataset id -> items of the dataset
  now,        \* the clock `new Date()` reads
  faults      \* the steps so far at which an external service failed

VARIABLES
  gpc,        \* g -> position of submission handler g (POST /api/generate)
  gBody,      \* g -> its request body
  gRun,       \* g -> the run id apify returned
  gResp       \* g -> the HTTP status it answered (0: none yet)

VARIABLES
  hpc,        \* h -> position of webhook handler h (POST /api/apify/webhook)
  hBody,      \* h -> its request body
  hResp,      \* h -> the HTTP status it answered (0: none yet)
  hRunId,     \* h -> runId
  hDs,        \* h -> finalDatasetId
  hOpts,      \* h -> avoidChains, includeKeywords, excludeKeywords
  hLog,       \* h -> what the handler logged at its end
  it          \* h -> w -> the locals of the iterator invocation of worker w

VARIABLES
  scArgs,     \* the arguments of a stand-alone call of a scoring function
  scOut       \* what the call returned (<<>>: it has not returned)

VARIABLES
  retry       \* a stand-alone call of withRetry: its tries, i and lastErr,
              \* where it stands, and what fn did at each invocation
              \* (<<>>: no such call)

mlVars == <<mlItems, mlLimit, mlNext, mlPromise, wpc, widx, invoked, outcome>>
storeVars == <<leads, techs, events, runs>>
upVars == <<uPc, uBase, uExisting, uResults>>
extVars == <<jobs, dsItems, faults>>
genVars == <<gpc, gBody, gRun, gResp>>
hookVars == <<hpc, hBody, hResp, hRunId, hDs, hOpts, hLog>>
scoreVars == <<scArgs, scOut>>
appVars == <<jobs, dsItems, now, faults, gpc, gBody, gRun, gResp,
             hpc, hBody, hResp, hRunId, hDs, hOpts, hLog, it, scArgs, scOut,
          retry>>
vars == <<mlItems, mlLimit, mlNext, mlPromise, wpc, widx, invoked, outcome,
          leads, techs, events, runs, uPc, uBase, uExisting, uResults,
          jobs, dsItems, now, faults, gpc, gBody, gRun, gResp,
          hpc, hBody, hResp, hRunId, hDs, hOpts, hLog, it, scArgs, scOut,
          retry>>

(***************************************************************************)
(* mapLimit (src/server.js:37-49)                                          *)
(***************************************************************************)
\* Array.from({ length: Math.max(1, limit) }, ...): the workers created
\* a plausible slip: one worker more than the limit
WorkerCountOneMore(limit) == Max(1, limit) + 1

WorkerCount(limit) == Max(1, limit)

Workers(h) == 1..WorkerCount(mlLimit[h])

NItems(h) == Len(mlItems[h])

\* the iterator invocations started and not yet settled
InFlight(h) == {w \in W : wpc[h][w] = "await"}

\* One pass of the worker loop body up to its await, for the workers ws in
\* order, starting from counter value i: each takes idx = i++, breaks when
\* idx >= items.length, else invokes the iterator on items[idx].
\* Yields [i, pc, idx] after all of ws have done so.
RECURSIVE ClaimAll(_, _, _, _, _), ClaimAllNoIncrement(_, _, _, _, _)
\* a plausible slip: `idx = i` without the post-increment on the claim
ClaimAllNoIncrement(ws, n, i, pcs, idxs) ==
  IF ws = <<>> THEN [i |-> i, pc |-> pcs, idx |-> idxs]
  ELSE LET w == Head(ws)
           brk == i >= n
       IN ClaimAll(Tail(ws), n, i,
                   [pcs EXCEPT ![w] = IF brk THEN "done" ELSE "await"],
                   [idxs EXCEPT ![w] = i])

ClaimAll(ws, n, i, pcs, idxs) ==
  IF ws = <<>> THEN [i |-> i, pc |-> pcs, idx |-> idxs]
  ELSE LET w == Head(ws)
           brk == i >= n
       IN ClaimAll(Tail(ws), n, i + 1,
                   [pcs EXCEPT ![w] = IF brk THEN "done" ELSE "await"],
                   [idxs EXCEPT ![w] = i])

SeqOfWorkers(k) == [j \in 1..k |-> j]

\* Promise.all(workers): rejected as soon as one worker rejects, fulfilled
\* when every worker has fulfilled
AllSettled(pcs, k, was) ==
  IF was # "pending" THEN was
  ELSE IF \E w \in 1..k : pcs[w] = "dead" THEN "rejected"
  ELSE IF \A w \in 1..k : pcs[w] = "done" THEN "resolved"
  ELSE "pending"

\* mapLimit(items, limit, iterator) is called: the workers are created and
\* each runs synchronously to its first await
MapLimitCall(h, items, limit) ==
  LET k == WorkerCount(limit)
      n == Len(items)
      c == ClaimAll(SeqOfWorkers(k), n, 0,
                    [w \in W |-> "none"], [w \in W |-> 0])
      holders(x) == {w \in W : c.pc[w] = "await" /\ c.idx[w] = x}
  IN /\ mlItems' = [mlItems EXCEPT ![h] = items]
     /\ mlLimit' = [mlLimit EXCEPT ![h] = limit]
     /\ mlNext' = [mlNext EXCEPT ![h] = c.i]
     /\ wpc' = [wpc EXCEPT ![h] = c.pc]
     /\ widx' = [widx EXCEPT ![h] = c.idx]
     /\ invoked' = [invoked EXCEPT ![h] =
                      [x \in 0..(n - 1) |-> Cardinality(holders(x))]]
     /\ outcome' = [outcome EXCEPT ![h] =
                      [x \in 0..(n - 1) |->
                         IF holders(x) # {} THEN "running" ELSE "none"]]
     /\ mlPromise' = [mlPromise EXCEPT ![h] = AllSettled(c.pc, k, "pending")]

\* `results[idx] = await iterator(...)` resumes with a value: the worker
\* loops, takes the next index and invokes the iterator on it, or breaks
WorkerResumeOk(h, w) ==
  LET c == ClaimAll(<<w>>, NItems(h), mlNext[h], wpc[h], widx[h])
      brk == c.pc[w] = "done"
      old == widx[h][w]
      new == c.idx[w]
  IN /\ mlNext' = [mlNext EXCEPT ![h] = c.i]
     /\ wpc' = [wpc EXCEPT ![h] = c.pc]
     /\ widx' = [widx EXCEPT ![h] = c.idx]
     /\ invoked' = [invoked EXCEPT ![h] =
                      IF brk THEN @ ELSE [@ EXCEPT ![new] = @ + 1]]
     /\ outcome' = [outcome EXCEPT ![h] =
                      IF brk THEN [@ EXCEPT ![old] = "returned"]
                      ELSE [@ EXCEPT ![old] = "returned", ![new] = "running"]]
     /\ mlPromise' = [mlPromise EXCEPT ![h] =
                        AllSettled(c.pc, WorkerCount(mlLimit[h]), @)]
     /\ UNCHANGED <<mlItems, mlLimit>>

\* the await throws: nothing in the worker catches it, the worker's promise
\* rejects and its loop is over
WorkerResumeThrow(h, w) ==
  LET pcs == [wpc[h] EXCEPT ![w] = "dead"]
  IN /\ wpc' = [wpc EXCEPT ![h] = pcs]
     /\ outcome' = [outcome EXCEPT ![h] = [@ EXCEPT ![widx[h][w]] = "thrown"]]
     /\ mlPromise' = [mlPromise EXCEPT ![h] =
                        AllSettled(pcs, WorkerCount(mlLimit[h]), @)]
     /\ UNCHANGED <<mlItems, mlLimit, mlNext, widx, invoked>>

(***************************************************************************)
(* The dispatcher alone: mapLimit over items whose iterator takes one      *)
(* step and returns, or throws on the items marked "throw".                *)
(***************************************************************************)
ItemLists(n) == UNION {[1..m -> {"ok", "throw"}] : m \in 0..n}

(***************************************************************************)
(* The data the handlers work on.                                          *)
(***************************************************************************)
\* the id of the k-th run the job service starts, and of its dataset
RunId(k) == "r" \o ToString(k)
DsId(k) == "d" \o ToString(k)
RunNos == 1..MaxSubmits
AllRuns == {RunId(k) : k \in RunNos}
AllDatasets == {DsId(k) : k \in RunNos}
RunNo(r) == CHOOSE k \in RunNos : RunId(k) = r

\* what the handler falls back to when the RunRecord is missing
\* (src/server.js:341-344)
DefaultOpts ==
  [avoidChains |-> TRUE, includeKeywords |-> <<>>, excludeKeywords |-> <<>>]

EmptyBase ==
  [google_place_id |-> NULL, name |-> NULL, phone |-> NULL,
   website |-> NULL, rating |-> NoNum, review_count |-> NoNum]

NoFeatures == [flags |-> NoFlags, technologies |-> <<>>]

\* the locals of an iterator invocation that is not running
Idle ==
  [pc |-> "none", base |-> EmptyBase, id |-> NoRow, existing |-> NoRow,
   techExisting |-> NoRow, siteText |-> "", feat |-> NoFeatures, llm |-> EmptyLLM,
   rating |-> NoNum, reviews |-> NoNum,
   tech |-> [found |-> FALSE, flags |-> NoFlags, specialties |-> <<>>]]

\* no stand-alone call of a scoring function or of withRetry is in progress
InitScoreIdle == scArgs = <<>> /\ scOut = <<>> /\ retry = <<>>

InitApp ==
  /\ InitScoreIdle
  /\ jobs = [r \in AllRuns |-> "none"]
  /\ dsItems = [d \in AllDatasets |-> <<>>]
  /\ now = 0
  /\ faults = 0
  /\ gpc = [g \in G |-> "idle"]
  /\ gBody = [g \in G |-> <<>>]
  /\ gRun = [g \in G |-> NULL]
  /\ gResp = [g \in G |-> 0]
  /\ hpc = [h \in H |-> "idle"]
  /\ hBody = [h \in H |-> <<>>]
  /\ hResp = [h \in H |-> 0]
  /\ hRunId = [h \in H |-> NULL]
  /\ hDs = [h \in H |-> NULL]
  /\ hOpts = [h \in H |-> DefaultOpts]
  /\ hLog = [h \in H |-> "none"]
  /\ it = [h \in H |-> [w \in W |-> Idle]]

InitStoreEmpty ==
  /\ leads = <<>>
  /\ techs = <<>>
  /\ events = EmptyBag
  /\ runs = <<>>

InitUpIdle ==
  /\ uPc = "idle"
  /\ uBase = EmptyBase
  /\ uExisting = NoRow
  /\ uResults = <<>>

InitDispatch ==
  /\ InitStoreEmpty
  /\ InitUpIdle
  /\ InitApp
  /\ mlItems = [h \in H |-> <<>>]
  /\ mlLimit = [h \in H |-> 0]
  /\ mlNext = [h \in H |-> 0]
  /\ mlPromise = [h \in H |-> "none"]
  /\ wpc = [h \in H |-> [w \in W |-> "none"]]
  /\ widx = [h \in H |-> [w \in W |-> 0]]
  /\ invoked = [h \in H |-> <<>>]
  /\ outcome = [h \in H |-> <<>>]

DispatchCall ==
  /\ mlPromise[1] = "none"
  /\ \E items \in ItemLists(MaxN), limit \in Limits :
       MapLimitCall(1, items, limit)
  /\ UNCHANGED <<storeVars, upVars, appVars>>

DispatchIterReturn(w) ==
  /\ wpc[1][w] = "await"
  /\ mlItems[1][widx[1][w] + 1] = "ok"
  /\ WorkerResumeOk(1, w)
  /\ UNCHANGED <<storeVars, upVars, appVars>>

DispatchIterThrow(w) ==
  /\ wpc[1][w] = "await"
  /\ mlItems[1][widx[1][w] + 1] = "throw"
  /\ WorkerResumeThrow(1, w)
  /\ UNCHANGED <<storeVars, upVars, appVars>>

NextDispatch ==
  \/ DispatchCall
  \/ \E w \in W : DispatchIterReturn(w)
  \/ \E w \in W : DispatchIterThrow(w)

SpecDispatch == InitDispatch /\ [][NextDispatch]_vars

(***************************************************************************)
(* The relational store, as the code uses it.  A lead row carries the      *)
(* identity columns, the metadata the score reads and the score columns;   *)
(* the address, geo, hours and closure columns are written and never read  *)
(* by the pipeline and are left out.                                       *)
(***************************************************************************)
\* the generated column dental_leads.domain ("generated by DB; do not
\* write", src/server.js:146): the derived domain of the row's website
DbDomain(website) == domainFrom(website)

\* JSON.stringify drops the properties whose value is undefined: on insert
\* the column takes its default (null), on update it keeps its value
Col(v, was) == IF v = UNDEF THEN was ELSE v

\* insert(payload).select('id').single() on dental_leads: the store assigns
\* the id and the defaults of the columns the payload does not name
DbInsertLead(rows, payload) ==
  Append(rows,
         [id |-> Len(rows) + 1,
          google_place_id |-> Col(payload.google_place_id, NULL),
          name |-> Col(payload.name, NULL),
          phone |-> Col(payload.phone, NULL),
          website |-> Col(payload.website, NULL),
          domain |-> DbDomain(Col(payload.website, NULL)),
          rating |-> payload.rating,
          review_count |-> payload.review_count,
          tech_score |-> NoNum,
          tech_tier |-> NULL,
          qualification_status |-> NULL,
          final_score |-> NoNum])

\* a plausible slip: the update payload also clears the Score columns
DbUpdateLeadClearsScore(rows, byId, payload) ==
  [rows EXCEPT ![byId] =
     [@ EXCEPT !.google_place_id = Col(payload.google_place_id, @),
               !.name = Col(payload.name, @),
               !.phone = Col(payload.phone, @),
               !.website = Col(payload.website, @),
               !.domain = DbDomain(Col(payload.website, rows[byId].website)),
               !.rating = IF payload.rating = NoNum THEN @ ELSE payload.rating,
               !.review_count = IF payload.review_count = NoNum THEN @
                                ELSE payload.review_count,
               !.tech_score = NoNum, !.tech_tier = NULL,
               !.qualification_status = NULL, !.final_score = NoNum]]

\* update(payload).eq('id', byId) on dental_leads
DbUpdateLead(rows, byId, payload) ==
  [rows EXCEPT ![byId] =
     [@ EXCEPT !.google_place_id = Col(payload.google_place_id, @),
               !.name = Col(payload.name, @),
               !.phone = Col(payload.phone, @),
               !.website = Col(payload.website, @),
               !.domain = DbDomain(Col(payload.website, rows[byId].website)),
               !.rating = IF payload.rating = NoNum THEN @ ELSE payload.rating,
               !.review_count = IF payload.review_count = NoNum THEN @
                                ELSE payload.review_count]]

(***************************************************************************)
(* upsertLead (src/server.js:128-164)                                      *)
(***************************************************************************)
\* a plausible slip: the phone condition is left out of the filter
CondsNoPhone(base) ==
  LET domain == domainFrom(base.website)
  IN  (IF Truthy(base.google_place_id)
         THEN {<<"google_place_id", base.google_place_id>>} ELSE {})
      \cup (IF Truthy(domain) THEN {<<"domain", domain>>} ELSE {})

\* lines 129-134: the conditions of the or-filter, one per truthy key
Conds(base) ==
  LET domain == domainFrom(base.website)
  IN  (IF Truthy(base.google_place_id)
         THEN {<<"google_place_id", base.google_place_id>>} ELSE {})
      \cup (IF Truthy(domain) THEN {<<"domain", domain>>} ELSE {})
      \cup (IF Truthy(base.phone) THEN {<<"phone", base.phone>>} ELSE {})

\* the rows `.or(conds)` selects
OrMatches(rows, conds) ==
  {k \in 1..Len(rows) : \E c \in conds : rows[k][c[1]] = c[2]}

\* lines 136-140: what `existing` can become: no lookup without conditions;
\* else the first row the store returns under limit(1), in the store's own
\* order, or null when none matches
ExistingChoices(rows, base) ==
  LET conds == Conds(base)
  IN IF conds = {} \/ OrMatches(rows, conds) = {} THEN {NoRow}
     ELSE OrMatches(rows, conds)

\* lines 142-155
LeadPayload(base) ==
  [google_place_id |-> Or(base.google_place_id, NULL),
   name |-> base.name,
   phone |-> base.phone,
   website |-> base.website,
   rating |-> base.rating,
   review_count |-> base.review_count]

\* a plausible slip: the insert branch is taken whatever the lookup found
UpsertWriteAlwaysInsert(rows, base, existing) ==
  LET d == DbInsertLead(rows, LeadPayload(base))
  IN [rows |-> d, id |-> Len(d)]

\* lines 157-163: update the row found, or insert; yields the table and the
\* id returned
UpsertWrite(rows, base, existing) ==
  IF existing # NoRow
  THEN [rows |-> DbUpdateLead(rows, existing, LeadPayload(base)), id |-> existing]
  ELSE LET d == DbInsertLead(rows, LeadPayload(base))
       IN [rows |-> d, id |-> Len(d)]

(***************************************************************************)
(* upsertLead alone: calls made one after the other on a store that starts *)
(* empty, each a lookup step and a write step; a store call may fail.      *)
(***************************************************************************)
PlaceIds == {NULL, "p1"}
Phones == {NULL, "+1 555-0101"}
Websites == {UNDEF, "https://www.a.com", "http://A.com/x", "a.com"}

Bases ==
  [google_place_id : PlaceIds, name : {"Bright Smiles"}, phone : Phones,
   website : Websites, rating : {45}, review_count : {120}]

InitUpsert ==
  /\ InitStoreEmpty
  /\ InitUpIdle
  /\ InitApp
  /\ mlItems = [h \in H |-> <<>>]
  /\ mlLimit = [h \in H |-> 0]
  /\ mlNext = [h \in H |-> 0]
  /\ mlPromise = [h \in H |-> "none"]
  /\ wpc = [h \in H |-> [w \in W |-> "none"]]
  /\ widx = [h \in H |-> [w \in W |-> 0]]
  /\ invoked = [h \in H |-> <<>>]
  /\ outcome = [h \in H |-> <<>>]

UpsertThrew == [status |-> "threw", base |-> uBase, id |-> 0,
                created |-> FALSE, nrows |-> Len(leads)]

\* upsertLead(base) is called
UpsertCall ==
  /\ uPc = "idle"
  /\ Len(uResults) < MaxUpserts
  /\ \E base \in Bases :
       /\ uBase' = base
       /\ uPc' = IF Conds(base) = {} THEN "write" ELSE "lookup"
  /\ uExisting' = NoRow
  /\ UNCHANGED <<uResults, storeVars, mlVars, appVars>>

\* sbSelectOr answers
UpsertLookup ==
  /\ uPc = "lookup"
  /\ \E e \in ExistingChoices(leads, uBase) : uExisting' = e
  /\ uPc' = "write"
  /\ UNCHANGED <<uBase, uResults, storeVars, mlVars, appVars>>

\* sbUpdate / sbInsertOne answers
UpsertStore ==
  /\ uPc = "write"
  /\ LET r == UpsertWrite(leads, uBase, uExisting)
     IN /\ leads' = r.rows
        /\ uResults' = Append(uResults,
                              [status |-> "ok", base |-> uBase, id |-> r.id,
                               created |-> (uExisting = NoRow),
                               nrows |-> Len(r.rows)])
  /\ uPc' = "idle"
  /\ UNCHANGED <<uBase, uExisting, techs, events, runs, mlVars, appVars>>

\* a store call of upsertLead fails for good (withRetry rethrows)
UpsertFail ==
  /\ uPc \in {"lookup", "write"}
  /\ uResults' = Append(uResults, UpsertThrew)
  /\ uPc' = "idle"
  /\ UNCHANGED <<uBase, uExisting, storeVars, mlVars, appVars>>

NextUpsert == UpsertCall \/ UpsertLookup \/ UpsertStore \/ UpsertFail

SpecUpsert == InitUpsert /\ [][NextUpsert]_vars


(***************************************************************************)
(* The per-item iterator of the webhook handler (src/server.js:346-428):   *)
(* its pure parts.                                                         *)
(***************************************************************************)
DEFAULT_CHAINS ==
  {ToLower(c) : c \in
     {"Aspen Dental", "Western Dental", "Pacific Dental", "Heartland Dental",
      "Smile Direct Club", "Ideal Dental", "Bright Now Dental", "DentalWorks",
      "Affordable Dentures", "ClearChoice", "Coast Dental",
      "Great Expressions", "Aspire Dental", "Midwest Dental", "InterDent",
      "MB2 Dental", "Dental Care Alliance"}}

\* lines 349-359
BaseOf(item) ==
  [google_place_id |-> item.placeId,
   name |-> item.title,
   phone |-> item.phone,
   website |-> Or(item.website, item.url),
   rating |-> OrNum(item.rating, item.stars),
   review_count |-> OrNum(item.reviewsCount, item.reviews)]

\* a plausible slip: the name is compared whole with the chain names
ChainSkippedExact(avoidChains, base) ==
  avoidChains /\ ToLower(Or(base.name, "")) \in DEFAULT_CHAINS

\* line 361
ChainSkipped(avoidChains, base) ==
  avoidChains /\ \E c \in DEFAULT_CHAINS : Includes(ToLower(Or(base.name, "")), c)

\* a plausible slip: the keywords are not lower-cased before the comparison
KeywordSkippedAsWritten(includeKeywords, excludeKeywords, siteText) ==
  LET low == ToLower(siteText)
      hit(q) == \E k \in 1..Len(q) : Includes(low, q[k])
  IN \/ Len(includeKeywords) # 0 /\ ~hit(includeKeywords)
     \/ Len(excludeKeywords) # 0 /\ hit(excludeKeywords)

\* lines 391-393: TRUE when the keyword filters make the iterator return
KeywordSkipped(includeKeywords, excludeKeywords, siteText) ==
  LET low == ToLower(siteText)
      hit(q) == \E k \in 1..Len(q) : Includes(low, ToLower(q[k]))
  IN \/ Len(includeKeywords) # 0 /\ ~hit(includeKeywords)
     \/ Len(excludeKeywords) # 0 /\ hit(excludeKeywords)

\* what the pages of the model's websites say
SiteContent(website) ==
  IF website = "https://www.a.com"
    THEN "Book Online Now! We use CEREC same-day crowns."
  ELSE IF website = "http://A.com/x" THEN "Family dentistry. Laser whitening."
  ELSE "Pay online."

\* lines 369-388: siteText, given whether the extraction actor and the
\* direct fetch deliver
AcquireText(website, rag, fetch) ==
  IF ~Truthy(website) THEN ""
  ELSE IF rag = "ok" /\ SiteContent(website) # "" THEN SiteContent(website)
  ELSE IF fetch = "ok" THEN SiteContent(website)
  ELSE ""

\* the answers of the language model
Answers ==
  {[kind |-> "json", specialties |-> <<"cosmetic">>, notes |-> "veneers"],
   [kind |-> "garbage", specialties |-> <<>>, notes |-> ""]}

\* .select(cols).match(match).single() through sbSelectOne
\* (src/server.js:120-126): the row when exactly one matches; no row and
\* several rows both come back as error PGRST116, which is let through as
\* null
SelectOne(rows, col, val) ==
  LET hits == {k \in 1..Len(rows) : rows[k][col] = val}
  IN IF Cardinality(hits) = 1 THEN CHOOSE k \in hits : TRUE ELSE NoRow

\* saveTechMvp (src/server.js:166-184): the row, and the write
TechRow(lead_id, feat, siteText, llm) ==
  [lead_id |-> lead_id,
   flags |-> feat.flags,
   technologies |-> feat.technologies,
   website_text_excerpt |-> IF siteText # "" THEN SubSeq(siteText, 1, Min(1500, Len(siteText)))
                            ELSE NULL,
   llm_specialties |-> llm.specialties,
   llm_notes |-> Or(llm.notes, NULL)]

\* the table lead_tech_analysis is unique on its lead reference: the store
\* refuses an insert for a lead that has a row
TechLeadTaken(rows, lead_id) == \E k \in 1..Len(rows) : rows[k].lead_id = lead_id

\* a plausible slip: the row is inserted whatever the lookup found
SaveTechWriteAlwaysInsert(rows, existing, row) == Append(rows, row)

SaveTechWrite(rows, existing, row) ==
  IF existing # NoRow THEN [rows EXCEPT ![existing] = row]
  ELSE Append(rows, row)

\* rescore (src/server.js:190-203): the columns it writes, from the lead
\* and tech rows it read
SpecialtyBoost(specialties) ==
  IF SeqHas(specialties, "cosmetic") \/ SeqHas(specialties, "aligners") THEN 60
  ELSE IF Len(specialties) # 0 THEN 40 ELSE 0

ScoreOf(rating, reviews, tech) ==
  LET techScore == computeTechScore(tech.flags)
      ss == subscores(techScore,
                      OrNum(rating, 0), OrNum(reviews, 0),
                      tech.flags.has_online_scheduling,
                      SpecialtyBoost(tech.specialties))
      t == tierFromScore(ss.final)
  IN [tech_score |-> techScore, tech_tier |-> t.tier,
      qualification_status |-> t.qual, final_score |-> ss.final]

\* lines 205-215
DbUpdateScore(rows, id, sc) ==
  [rows EXCEPT ![id] =
     [@ EXCEPT !.tech_score = sc.tech_score, !.tech_tier = sc.tech_tier,
               !.qualification_status = sc.qualification_status,
               !.final_score = sc.final_score]]

Event(lead_id, type, payload) ==
  [lead_id |-> lead_id, event_type |-> type, payload |-> payload]

\* sbInsert('lead_events', row) (src/server.js:94-100)
DbInsertEvent(rows, row) == rows (+) SetToBag({row})

(***************************************************************************)
(* The webhook handler (src/server.js:306-440): its pure parts.            *)
(***************************************************************************)
\* String(x).split('/').pop()
LastSegment(x) ==
  LET cuts == {k \in 1..Len(x) : SubSeq(x, k, k) = "/"}
      last == IF cuts = {} THEN 0 ELSE CHOOSE k \in cuts : \A j \in cuts : j <= k
  IN SubSeq(x, last + 1, Len(x))

\* a request body: the properties it has
Field(body, f) == IF f \in DOMAIN body THEN body[f] ELSE UNDEF

\* a plausible slip: the ids embedded in the payload are not looked at
DatasetIdOfNone(body) == NULL

\* lines 312-318
DatasetIdOf(body) ==
  LET raw == Or(Field(body, "resource_defaultDatasetId"),
                Or(Field(body, "defaultDatasetId"),
                   Or(Field(body, "datasetId"), NULL)))
  IN IF Truthy(raw) THEN LastSegment(raw) ELSE NULL

\* line 319
RunIdOf(body) == Or(Field(body, "resource_id"), Or(Field(body, "id"), NULL))

\* lines 341-344
OptsOf(meta) ==
  [avoidChains |-> meta.avoidChains,
   includeKeywords |-> meta.includeKeywords,
   excludeKeywords |-> meta.excludeKeywords]

\* lines 249-258 and 289: the options a submission persists, with the
\* defaults of the destructuring
MetaOf(body) ==
  [avoidChains |-> IF "avoidChains" \in DOMAIN body THEN body.avoidChains ELSE TRUE,
   includeKeywords |-> IF "includeKeywords" \in DOMAIN body
                       THEN body.includeKeywords ELSE <<>>,
   excludeKeywords |-> IF "excludeKeywords" \in DOMAIN body
                       THEN body.excludeKeywords ELSE <<>>]


(***************************************************************************)
(* POST /api/generate (src/server.js:248-297) and the crawl it starts.     *)
(***************************************************************************)
\* a step at which an external service (the store, the job service, a
\* site, the classifier) fails, and one at which none does
Faulty == faults < MaxFaults /\ faults' = faults + 1
Sound == faults' = faults

Bodies ==
  {<<>>,
   [location |-> "Denver"],
   [location |-> "Denver", avoidChains |-> FALSE,
    includeKeywords |-> <<"cerec">>, excludeKeywords |-> <<"laser">>]}

\* the runs the job service has started
Started == {r \in AllRuns : jobs[r] # "none"}

\* a plausible slip: the location is not checked
GeneratePostUnchecked(g) ==
  /\ gpc[g] = "idle"
  /\ \A f \in G : f < g => gpc[f] # "idle"
  /\ \E body \in Bodies : gBody' = [gBody EXCEPT ![g] = body]
  /\ gpc' = [gpc EXCEPT ![g] = "start"]
  /\ UNCHANGED <<gResp, gRun, extVars, now, scoreVars, retry, hookVars, it,
                 mlVars, storeVars, upVars>>

\* lines 249-260: the request arrives; without a location it is answered
\* 400, else actor(...).start(...) is awaited
GeneratePost(g) ==
  /\ gpc[g] = "idle"
  /\ \A f \in G : f < g => gpc[f] # "idle"
  /\ \E body \in Bodies :
       /\ gBody' = [gBody EXCEPT ![g] = body]
       /\ IF ~Truthy(Field(body, "location"))
          THEN /\ gResp' = [gResp EXCEPT ![g] = 400]
               /\ gpc' = [gpc EXCEPT ![g] = "done"]
          ELSE /\ gResp' = gResp
               /\ gpc' = [gpc EXCEPT ![g] = "start"]
  /\ UNCHANGED <<gRun, extVars, now, scoreVars, retry, hookVars, it, mlVars,
                 storeVars, upVars>>

\* lines 277-284: start() answers with the new run; the insert into
\* lead_runs is awaited
GenerateStarted(g) ==
  /\ gpc[g] = "start"
  /\ Cardinality(Started) < MaxSubmits
  /\ LET r == RunId(Cardinality(Started) + 1)
     IN /\ jobs' = [jobs EXCEPT ![r] = "READY"]
        /\ gRun' = [gRun EXCEPT ![g] = r]
  /\ gpc' = [gpc EXCEPT ![g] = "insert"]
  /\ UNCHANGED <<gBody, gResp, dsItems, faults, now, scoreVars, retry,
                 hookVars, it, mlVars, storeVars, upVars>>

\* lines 284-292: the RunRecord is inserted and the submission answered
GenerateInserted(g) ==
  /\ gpc[g] = "insert"
  /\ runs' = Append(runs, [run_id |-> gRun[g], status |-> jobs[gRun[g]],
                           meta |-> MetaOf(gBody[g]), finished_at |-> 0])
  /\ gResp' = [gResp EXCEPT ![g] = 200]
  /\ gpc' = [gpc EXCEPT ![g] = "done"]
  /\ UNCHANGED <<gBody, gRun, extVars, now, scoreVars, retry, hookVars, it,
                 mlVars, leads, techs, events, upVars>>

\* lines 293-296: start() or the insert throws
GenerateFail(g) ==
  /\ gpc[g] \in {"start", "insert"}
  /\ gResp' = [gResp EXCEPT ![g] = 500]
  /\ gpc' = [gpc EXCEPT ![g] = "done"]
  /\ Faulty
  /\ UNCHANGED <<gBody, gRun, jobs, dsItems, now, scoreVars, retry, hookVars,
                 it, mlVars, storeVars, upVars>>

ItemSmiles ==
  [placeId |-> "p1", title |-> "Bright Smiles", phone |-> "+1 555-0101",
   website |-> "https://www.a.com", url |-> UNDEF,
   rating |-> 45, stars |-> NoNum, reviewsCount |-> 120, reviews |-> NoNum]

ItemAspen ==
  [placeId |-> "p2", title |-> "Aspen Dental of Springfield", phone |-> NULL,
   website |-> UNDEF, url |-> "http://A.com/x",
   rating |-> NoNum, stars |-> 38, reviewsCount |-> NoNum, reviews |-> 15]

\* what a crawl leaves in its dataset: nothing, or two businesses
DatasetChoices == {<<>>, <<ItemSmiles, ItemAspen>>}

\* the crawl ends, succeeded or failed, with the dataset it wrote
CrawlFinish(r) ==
  /\ jobs[r] = "READY"
  /\ \E st \in {"SUCCEEDED", "FAILED"} : jobs' = [jobs EXCEPT ![r] = st]
  /\ \E items \in DatasetChoices :
       dsItems' = [dsItems EXCEPT ![DsId(RunNo(r))] = items]
  /\ UNCHANGED <<faults, now, scoreVars, retry, genVars, hookVars, it, mlVars,
                 storeVars, upVars>>

(***************************************************************************)
(* POST /api/apify/webhook (src/server.js:306-440)                         *)
(***************************************************************************)
\* the bodies the job service posts for a finished run r (its run object
\* under `resource`), and other callers' bodies: the run id alone, a
\* dataset path alone, the id of a run the job service does not know,
\* nothing
Payloads ==
  {<<>>, [id |-> "r0"]}
  \cup UNION {
    {[resource_id |-> r, resource_defaultDatasetId |-> DsId(RunNo(r))],
     [id |-> r],
     [datasetId |-> "datasets/" \o DsId(RunNo(r))]}
      : r \in {x \in AllRuns : jobs[x] \in {"SUCCEEDED", "FAILED"}}}

\* handler f has been called and its processing is not over
Busy(f) == hpc[f] \notin {"idle", "done"} \/ \E w \in W : wpc[f][w] = "await"

\* a delivery arrives, while fewer than MaxOverlap others are being processed
WebhookPost(h) ==
  /\ hpc[h] = "idle"
  /\ \A f \in H : f < h => hpc[f] # "idle"
  /\ Cardinality({f \in H : Busy(f)}) < MaxOverlap
  /\ \E body \in Payloads : hBody' = [hBody EXCEPT ![h] = body]
  /\ hpc' = [hpc EXCEPT ![h] = "ack"]
  /\ UNCHANGED <<hResp, hRunId, hDs, hOpts, hLog, it, extVars, now, scoreVars,
                 retry, genVars, mlVars, storeVars, upVars>>

\* a plausible slip: the acknowledgment is not sent first
WebhookAckLate(h) ==
  /\ hpc[h] = "ack"
  /\ hpc' = [hpc EXCEPT ![h] = "resolve"]
  /\ UNCHANGED <<hResp, hBody, hRunId, hDs, hOpts, hLog, it, extVars, now,
                 scoreVars, retry, genVars, mlVars, storeVars, upVars>>

\* line 307: res.status(200).json({ received: true })
WebhookAck(h) ==
  /\ hpc[h] = "ack"
  /\ hResp' = [hResp EXCEPT ![h] = 200]
  /\ hpc' = [hpc EXCEPT ![h] = "resolve"]
  /\ UNCHANGED <<hBody, hRunId, hDs, hOpts, hLog, it, extVars, now, scoreVars,
                 retry, genVars, mlVars, storeVars, upVars>>

\* lines 311-337: the ids of the payload; return without either, look the
\* run up without a dataset id, else fetch the items
WebhookResolve(h) ==
  /\ hpc[h] = "resolve"
  /\ LET datasetId == DatasetIdOf(hBody[h])
         runId == RunIdOf(hBody[h])
     IN /\ hRunId' = [hRunId EXCEPT ![h] = runId]
        /\ hDs' = [hDs EXCEPT ![h] = datasetId]
        /\ IF ~Truthy(datasetId) /\ ~Truthy(runId)
           THEN hpc' = [hpc EXCEPT ![h] = "done"]
                /\ hLog' = [hLog EXCEPT ![h] = "no ids"]
           ELSE hpc' = [hpc EXCEPT ![h] =
                          IF ~Truthy(datasetId) THEN "runGet" ELSE "list"]
                /\ hLog' = hLog
  /\ UNCHANGED <<hBody, hResp, hOpts, it, extVars, now, scoreVars, retry,
                 genVars, mlVars, storeVars, upVars>>

\* lines 328-334: apify.run(runId).get() answers
WebhookRunGet(h) ==
  /\ hpc[h] = "runGet"
  /\ LET ds == IF hRunId[h] \in Started THEN DsId(RunNo(hRunId[h])) ELSE NULL
     IN /\ hDs' = [hDs EXCEPT ![h] = ds]
        /\ IF ~Truthy(ds)
           THEN hpc' = [hpc EXCEPT ![h] = "done"]
                /\ hLog' = [hLog EXCEPT ![h] = "unresolved"]
           ELSE hpc' = [hpc EXCEPT ![h] = "list"] /\ hLog' = hLog
  /\ UNCHANGED <<hBody, hResp, hRunId, hOpts, it, extVars, now, scoreVars,
                 retry, genVars, mlVars, storeVars, upVars>>

\* lines 337-340: listItems answers; the RunRecord is asked for
WebhookList(h) ==
  /\ hpc[h] = "list"
  /\ hDs[h] \in AllDatasets
  /\ hpc' = [hpc EXCEPT ![h] = "loadMeta"]
  /\ UNCHANGED <<hBody, hResp, hRunId, hDs, hOpts, hLog, it, extVars, now,
                 scoreVars, retry, genVars, mlVars, storeVars, upVars>>


\* the locals of an iterator invocation that has just been invoked
Begun == [Idle EXCEPT !.pc = "begin"]

\* the frame of worker w after `wpc` changed: a new invocation, or none
FrameAfter(pcs, w) == IF pcs[w] = "await" THEN Begun ELSE Idle

\* lines 340-344: opts, from the RunRecord of runId when there is one
LoadedOpts(rows, runId) ==
  LET k == SelectOne(rows, "run_id", runId)
  IN IF k = NoRow THEN DefaultOpts ELSE OptsOf(rows[k].meta)

\* lines 340-346: sbSelectOne answers; the options are taken and
\* mapLimit(items, 3, ...) is called
WebhookLoadMeta(h) ==
  /\ hpc[h] = "loadMeta"
  /\ hOpts' = [hOpts EXCEPT ![h] = LoadedOpts(runs, hRunId[h])]
  /\ MapLimitCall(h, dsItems[hDs[h]], WebhookLimit)
  /\ it' = [it EXCEPT ![h] = [w \in W |-> FrameAfter(wpc'[h], w)]]
  /\ hpc' = [hpc EXCEPT ![h] = "dispatch"]
  /\ UNCHANGED <<hBody, hResp, hRunId, hDs, hLog, extVars, now, scoreVars,
                 retry, genVars, storeVars, upVars>>

\* line 346: `await mapLimit(...)` has resolved
DispatchOver(h) == hpc[h] = "dispatch" /\ mlPromise[h] = "resolved"

\* lines 430-435: update({status, finished_at}).eq('run_id', runId)
MarkRun(rows, runId, at) ==
  [k \in 1..Len(rows) |->
     IF rows[k].run_id = runId
     THEN [rows[k] EXCEPT !.status = "succeeded", !.finished_at = at]
     ELSE rows[k]]

\* lines 430-435: the update of lead_runs answers
WebhookMarkRun(h) ==
  /\ DispatchOver(h)
  /\ now' = now + 1
  /\ runs' = MarkRun(runs, hRunId[h], now')
  /\ hpc' = [hpc EXCEPT ![h] = "done"]
  /\ hLog' = [hLog EXCEPT ![h] = "marked"]
  /\ UNCHANGED <<hBody, hResp, hRunId, hDs, hOpts, it, extVars, genVars,
                 mlVars, leads, techs, events, upVars, scoreVars, retry>>

\* lines 437-439: `await mapLimit(...)` throws into the catch
WebhookCatch(h) ==
  /\ hpc[h] = "dispatch"
  /\ mlPromise[h] = "rejected"
  /\ hpc' = [hpc EXCEPT ![h] = "done"]
  /\ hLog' = [hLog EXCEPT ![h] = "error"]
  /\ UNCHANGED <<hBody, hResp, hRunId, hDs, hOpts, it, extVars, now,
                 scoreVars, retry, genVars, mlVars, storeVars, upVars>>

\* lines 437-439: an awaited call of the handler itself throws (the job
\* service, or the store after its retries) into the catch
WebhookAwaitFail(h) ==
  /\ \/ hpc[h] \in {"runGet", "list", "loadMeta"}
     \/ DispatchOver(h)
  /\ Faulty
  /\ hpc' = [hpc EXCEPT ![h] = "done"]
  /\ hLog' = [hLog EXCEPT ![h] = "error"]
  /\ UNCHANGED <<hBody, hResp, hRunId, hDs, hOpts, it, jobs, dsItems, now,
                 scoreVars, retry, genVars, mlVars, storeVars, upVars>>

(***************************************************************************)
(* The iterator invocation of worker w of handler h, one action per await  *)
(* (src/server.js:346-428).                                                *)
(***************************************************************************)
At(h, w, pc) == wpc[h][w] = "await" /\ it[h][w].pc = pc

Goto(h, w, frame) == it' = [it EXCEPT ![h][w] = frame]

hookFrame == <<hBody, hResp, hRunId, hDs, hOpts, hLog, hpc>>

\* the invocation returns: the worker goes on
Return(h, w) ==
  /\ WorkerResumeOk(h, w)
  /\ it' = [it EXCEPT ![h][w] = FrameAfter(wpc'[h], w)]

\* the invocation throws: the worker is over
Throw(h, w) ==
  /\ WorkerResumeThrow(h, w)
  /\ it' = [it EXCEPT ![h][w] = Idle]

\* lines 347-363, 129-140: base; the chain filter; the lookup of upsertLead
ItemBegin(h, w) ==
  /\ At(h, w, "begin")
  /\ LET base == BaseOf(mlItems[h][widx[h][w] + 1])
     IN IF ChainSkipped(hOpts[h].avoidChains, base)
        THEN Return(h, w)
        ELSE /\ \E e \in ExistingChoices(leads, base) :
                  Goto(h, w, [it[h][w] EXCEPT !.pc = "write", !.base = base,
                                              !.existing = e])
             /\ UNCHANGED mlVars
  /\ UNCHANGED <<hookFrame, extVars, now, scoreVars, retry, genVars,
                 storeVars, upVars>>

\* lines 157-163: the write of upsertLead
ItemUpsertWrite(h, w) ==
  /\ At(h, w, "write")
  /\ LET r == UpsertWrite(leads, it[h][w].base, it[h][w].existing)
     IN /\ leads' = r.rows
        /\ Goto(h, w, [it[h][w] EXCEPT !.pc = "text", !.id = r.id,
                                    !.existing = NoRow])
  /\ UNCHANGED <<hookFrame, extVars, now, scoreVars, retry, genVars, mlVars,
                 techs, events, runs, upVars>>

\* lines 368-393: the site text, from the extraction actor or the direct
\* fetch; the keyword filters
ItemText(h, w) ==
  /\ At(h, w, "text")
  /\ \E rag \in {"ok", "fail"}, fetch \in {"ok", "fail"} :
       LET siteText == AcquireText(it[h][w].base.website, rag, fetch)
       IN /\ IF rag = "ok" /\ fetch = "ok" THEN Sound ELSE Faulty
          /\ IF KeywordSkipped(hOpts[h].includeKeywords, hOpts[h].excludeKeywords,
                            siteText)
             THEN Return(h, w)
             ELSE /\ Goto(h, w, [it[h][w] EXCEPT
                                   !.pc = IF Truthy(it[h][w].base.website)
                                          THEN "deep" ELSE "llm",
                                   !.siteText = siteText])
                  /\ UNCHANGED mlVars
  /\ UNCHANGED <<hookFrame, jobs, dsItems, now, scoreVars, retry, genVars,
                 storeVars, upVars>>


\* a plausible slip: the deep-contacts block has no catch
ItemDeepUncaught(h, w) ==
  /\ At(h, w, "deep")
  /\ \/ /\ events' = DbInsertEvent(events,
                                     Event(it[h][w].id, "contacts_found", "0"))
        /\ Sound
        /\ Goto(h, w, [it[h][w] EXCEPT !.pc = "llm"])
        /\ UNCHANGED mlVars
     \/ events' = events /\ Faulty /\ Throw(h, w)
  /\ UNCHANGED <<hookFrame, jobs, dsItems, now, scoreVars, retry, genVars,
                 leads, techs, runs, upVars>>

\* lines 396-417: the deep-contacts actor and the insert of its event; a
\* failure of either is caught and logged
ItemDeep(h, w) ==
  /\ At(h, w, "deep")
  /\ \/ /\ events' = DbInsertEvent(events,
                                     Event(it[h][w].id, "contacts_found", "0"))
        /\ Sound
     \/ events' = events /\ Faulty
  /\ Goto(h, w, [it[h][w] EXCEPT !.pc = "llm"])
  /\ UNCHANGED <<hookFrame, jobs, dsItems, now, scoreVars, retry, genVars,
                 mlVars, leads, techs, runs, upVars>>

\* lines 419-422: detectFeatures; enrichWithLLM answers; saveTechMvp asks
\* for the analysis row of the lead
ItemLLM(h, w) ==
  /\ At(h, w, "llm")
  /\ \E haiku \in Answers, sonnet \in Answers :
       /\ IF haiku.kind = "json" /\ sonnet.kind = "json" THEN Sound ELSE Faulty
       /\ Goto(h, w, [it[h][w] EXCEPT
                        !.pc = "techSelect",
                        !.feat = detectFeatures(it[h][w].siteText),
                        !.llm = enrichWithLLM(it[h][w].siteText, haiku, sonnet)])
  /\ UNCHANGED <<hookFrame, jobs, dsItems, now, scoreVars, retry, genVars,
                 mlVars, storeVars, upVars>>

\* line 420, src/llm.js:5: messages.create throws, nothing catches it
ItemLLMThrow(h, w) ==
  /\ At(h, w, "llm")
  /\ Throw(h, w)
  /\ Faulty
  /\ UNCHANGED <<hookFrame, jobs, dsItems, now, scoreVars, retry, genVars,
                 storeVars, upVars>>

\* line 181: the lookup of saveTechMvp answers
ItemTechSelect(h, w) ==
  /\ At(h, w, "techSelect")
  /\ Goto(h, w, [it[h][w] EXCEPT
                   !.pc = "techWrite",
                   !.techExisting = SelectOne(techs, "lead_id", it[h][w].id)])
  /\ UNCHANGED <<hookFrame, extVars, now, scoreVars, retry, genVars, mlVars,
                 storeVars, upVars>>

\* a plausible slip: rescore is not called after saveTechMvp
ItemTechWriteNoRescore(h, w) ==
  /\ At(h, w, "techWrite")
  /\ IF it[h][w].techExisting = NoRow /\ TechLeadTaken(techs, it[h][w].id)
     THEN /\ Throw(h, w)
          /\ techs' = techs
     ELSE /\ techs' = SaveTechWrite(techs, it[h][w].techExisting,
                                    TechRow(it[h][w].id, it[h][w].feat,
                                            it[h][w].siteText, it[h][w].llm))
          /\ Goto(h, w, [it[h][w] EXCEPT !.pc = "created",
                                         !.techExisting = NoRow])
          /\ UNCHANGED mlVars
  /\ UNCHANGED <<hookFrame, extVars, now, scoreVars, retry, genVars, leads,
                 events, runs, upVars>>

\* lines 182-183: the write of saveTechMvp answers; an insert the store
\* refuses comes back as an error, which sbInsert throws
ItemTechWrite(h, w) ==
  /\ At(h, w, "techWrite")
  /\ IF it[h][w].techExisting = NoRow /\ TechLeadTaken(techs, it[h][w].id)
     THEN /\ Throw(h, w)
          /\ techs' = techs
     ELSE /\ techs' = SaveTechWrite(techs, it[h][w].techExisting,
                                    TechRow(it[h][w].id, it[h][w].feat,
                                            it[h][w].siteText, it[h][w].llm))
          /\ Goto(h, w, [it[h][w] EXCEPT !.pc = "rsLead",
                                         !.techExisting = NoRow])
          /\ UNCHANGED mlVars
  /\ UNCHANGED <<hookFrame, extVars, now, scoreVars, retry, genVars, leads,
                 events, runs, upVars>>

\* line 187: rescore reads the lead
ItemRescoreLead(h, w) ==
  /\ At(h, w, "rsLead")
  /\ LET k == SelectOne(leads, "id", it[h][w].id)
     IN Goto(h, w, [it[h][w] EXCEPT
                      !.pc = "rsTech",
                      !.rating = IF k = NoRow THEN NoNum ELSE leads[k].rating,
                      !.reviews = IF k = NoRow THEN NoNum
                                  ELSE leads[k].review_count])
  /\ UNCHANGED <<hookFrame, extVars, now, scoreVars, retry, genVars, mlVars,
                 storeVars, upVars>>

\* line 188: rescore reads the analysis row
ItemRescoreTech(h, w) ==
  /\ At(h, w, "rsTech")
  /\ LET k == SelectOne(techs, "lead_id", it[h][w].id)
     IN Goto(h, w, [it[h][w] EXCEPT
                      !.pc = "rsUpdate",
                      !.tech = IF k = NoRow THEN Idle.tech
                               ELSE [found |-> TRUE, flags |-> techs[k].flags,
                                     specialties |-> techs[k].llm_specialties]])
  /\ UNCHANGED <<hookFrame, extVars, now, scoreVars, retry, genVars, mlVars,
                 storeVars, upVars>>

\* lines 190-215: the score is computed and written on the lead
ItemRescoreUpdate(h, w) ==
  /\ At(h, w, "rsUpdate")
  /\ leads' = DbUpdateScore(leads, it[h][w].id,
                            ScoreOf(it[h][w].rating, it[h][w].reviews,
                                    it[h][w].tech))
  /\ Goto(h, w, [it[h][w] EXCEPT !.pc = "rsEvent", !.rating = NoNum,
                                !.reviews = NoNum, !.tech = Idle.tech])
  /\ UNCHANGED <<hookFrame, extVars, now, scoreVars, retry, genVars, mlVars,
                 techs, events, runs, upVars>>

\* line 217: the 'rescored' event
ItemRescoreEvent(h, w) ==
  /\ At(h, w, "rsEvent")
  /\ events' = DbInsertEvent(events, Event(it[h][w].id, "rescored", "score"))
  /\ Goto(h, w, [it[h][w] EXCEPT !.pc = "created"])
  /\ UNCHANGED <<hookFrame, extVars, now, scoreVars, retry, genVars, mlVars,
                 leads, techs, runs, upVars>>

\* lines 425-428: the 'created' event, its payload the run id and the
\* dataset id; the iterator returns
ItemCreated(h, w) ==
  /\ At(h, w, "created")
  /\ events' = DbInsertEvent(events, Event(it[h][w].id, "created",
                                          hRunId[h] \o " " \o hDs[h]))
  /\ Return(h, w)
  /\ UNCHANGED <<hookFrame, extVars, now, scoreVars, retry, genVars, leads,
                 techs, runs, upVars>>

\* the positions of the iterator at which a call to the store is awaited
StorePcs ==
  {"begin", "write", "techSelect", "techWrite", "rsLead", "rsTech",
   "rsUpdate", "rsEvent", "created"}

\* a call to the store fails (after its retries, where it has any): the
\* iterator throws
ItemStoreFail(h, w) ==
  /\ wpc[h][w] = "await"
  /\ it[h][w].pc \in StorePcs
  /\ it[h][w].pc = "begin" =>
       ~ChainSkipped(hOpts[h].avoidChains, BaseOf(mlItems[h][widx[h][w] + 1]))
  /\ Throw(h, w)
  /\ Faulty
  /\ UNCHANGED <<hookFrame, jobs, dsItems, now, scoreVars, retry, genVars,
                 storeVars, upVars>>

(***************************************************************************)
(* The service: submissions, crawls and webhook deliveries interleaved.    *)
(***************************************************************************)
Init == InitDispatch

Next ==
  \/ \E g \in G : GeneratePost(g)
  \/ \E g \in G : GenerateStarted(g)
  \/ \E g \in G : GenerateInserted(g)
  \/ \E g \in G : GenerateFail(g)
  \/ \E r \in AllRuns : CrawlFinish(r)
  \/ \E h \in H : WebhookPost(h)
  \/ \E h \in H : WebhookAck(h)
  \/ \E h \in H : WebhookResolve(h)
  \/ \E h \in H : WebhookRunGet(h)
  \/ \E h \in H : WebhookList(h)
  \/ \E h \in H : WebhookLoadMeta(h)
  \/ \E h \in H : WebhookMarkRun(h)
  \/ \E h \in H : WebhookCatch(h)
  \/ \E h \in H : WebhookAwaitFail(h)
  \/ \E h \in H, w \in W : ItemBegin(h, w)
  \/ \E h \in H, w \in W : ItemUpsertWrite(h, w)
  \/ \E h \in H, w \in W : ItemText(h, w)
  \/ \E h \in H, w \in W : ItemDeep(h, w)
  \/ \E h \in H, w \in W : ItemLLM(h, w)
  \/ \E h \in H, w \in W : ItemLLMThrow(h, w)
  \/ \E h \in H, w \in W : ItemTechSelect(h, w)
  \/ \E h \in H, w \in W : ItemTechWrite(h, w)
  \/ \E h \in H, w \in W : ItemRescoreLead(h, w)
  \/ \E h \in H, w \in W : ItemRescoreTech(h, w)
  \/ \E h \in H, w \in W : ItemRescoreUpdate(h, w)
  \/ \E h \in H, w \in W : ItemRescoreEvent(h, w)
  \/ \E h \in H, w \in W : ItemCreated(h, w)
  \/ \E h \in H, w \in W : ItemStoreFail(h, w)

Spec == Init /\ [][Next]_vars


(***************************************************************************)
(* One delivery alone: the RunRecord of a finished run is stored, with any *)
(* of the filter options, the handler has answered and fetched the items   *)
(* of the dataset, and processes them.                                     *)
(***************************************************************************)
BatchBodies ==
  [location : {"Denver"}, avoidChains : BOOLEAN,
   includeKeywords : {<<>>, <<"CEREC">>},
   excludeKeywords : {<<>>, <<"laser">>}]

\* a dataset of two businesses, and one that lists the same business twice
BatchDatasets == {<<ItemSmiles, ItemAspen>>, <<ItemSmiles, ItemSmiles>>}

InitBatch ==
  /\ InitUpIdle
  /\ leads = <<>> /\ techs = <<>> /\ events = EmptyBag
  /\ mlItems = [h \in H |-> <<>>]
  /\ mlLimit = [h \in H |-> 0]
  /\ mlNext = [h \in H |-> 0]
  /\ mlPromise = [h \in H |-> "none"]
  /\ wpc = [h \in H |-> [w \in W |-> "none"]]
  /\ widx = [h \in H |-> [w \in W |-> 0]]
  /\ invoked = [h \in H |-> <<>>]
  /\ outcome = [h \in H |-> <<>>]
  /\ now = 0 /\ faults = 0
  /\ InitScoreIdle
  /\ \E body \in BatchBodies :
       /\ gBody = [g \in G |-> IF g = 1 THEN body ELSE <<>>]
       /\ runs = <<[run_id |-> RunId(1), status |-> "READY",
                    meta |-> MetaOf(body), finished_at |-> 0]>>
  /\ gpc = [g \in G |-> IF g = 1 THEN "done" ELSE "idle"]
  /\ gRun = [g \in G |-> IF g = 1 THEN RunId(1) ELSE NULL]
  /\ gResp = [g \in G |-> IF g = 1 THEN 200 ELSE 0]
  /\ \E st \in {"SUCCEEDED", "FAILED"} :
       jobs = [r \in AllRuns |-> IF r = RunId(1) THEN st ELSE "none"]
  /\ \E items \in BatchDatasets :
       dsItems = [d \in AllDatasets |-> IF d = DsId(1) THEN items ELSE <<>>]
  /\ hpc = [h \in H |-> IF h = 1 THEN "loadMeta" ELSE "idle"]
  /\ hBody = [h \in H |-> IF h = 1
                          THEN [resource_id |-> RunId(1),
                                resource_defaultDatasetId |-> DsId(1)]
                          ELSE <<>>]
  /\ hResp = [h \in H |-> IF h = 1 THEN 200 ELSE 0]
  /\ hRunId = [h \in H |-> IF h = 1 THEN RunId(1) ELSE NULL]
  /\ hDs = [h \in H |-> IF h = 1 THEN DsId(1) ELSE NULL]
  /\ hOpts = [h \in H |-> DefaultOpts]
  /\ hLog = [h \in H |-> "none"]
  /\ it = [h \in H |-> [w \in W |-> Idle]]

NextBatch ==
  \/ WebhookLoadMeta(1)
  \/ WebhookMarkRun(1)
  \/ WebhookCatch(1)
  \/ WebhookAwaitFail(1)
  \/ \E w \in W : ItemBegin(1, w)
  \/ \E w \in W : ItemUpsertWrite(1, w)
  \/ \E w \in W : ItemText(1, w)
  \/ \E w \in W : ItemDeep(1, w)
  \/ \E w \in W : ItemLLM(1, w)
  \/ \E w \in W : ItemLLMThrow(1, w)
  \/ \E w \in W : ItemTechSelect(1, w)
  \/ \E w \in W : ItemTechWrite(1, w)
  \/ \E w \in W : ItemRescoreLead(1, w)
  \/ \E w \in W : ItemRescoreTech(1, w)
  \/ \E w \in W : ItemRescoreUpdate(1, w)
  \/ \E w \in W : ItemRescoreEvent(1, w)
  \/ \E w \in W : ItemCreated(1, w)
  \/ \E w \in W : ItemStoreFail(1, w)

SpecBatch == InitBatch /\ [][NextBatch]_vars


(***************************************************************************)
(* Claims about the webhook handler and the submission, checked under Spec.*)
(***************************************************************************)
\* C6: a webhook POST is answered 200 before anything else happens: while
\* no answer has been sent the handler has fetched nothing, run no
\* dispatcher and logged no outcome; the answer is never anything but 200,
\* whatever the processing does afterwards.
C6_AckBeforeProcessing ==
  \A h \in H :
    /\ hResp[h] \in {0, 200}
    /\ hResp[h] = 0 =>
         /\ hpc[h] \in {"idle", "ack"}
         /\ mlPromise[h] = "none"
         /\ hLog[h] = "none"
         /\ \A w \in W : wpc[h][w] = "none"

\* an item's processing threw, the handler caught it, and its answer is 200
C6_Witness ==
  \E h \in H :
    /\ hpc[h] = "done"
    /\ mlPromise[h] = "rejected"
    /\ hLog[h] = "error"
    /\ hResp[h] = 200

\* C7: the RunRecord is marked also when an item's processing raised an
\* error: when a webhook handler whose dispatcher rejected is over, every
\* RunRecord of its run id is terminal and carries a completion time.
C7_ProcessedRunIsMarked ==
  \A h \in H :
    hpc[h] = "done" /\ mlPromise[h] = "rejected" =>
      \A k \in 1..Len(runs) :
        runs[k].run_id = hRunId[h] =>
          runs[k].status = "succeeded" /\ runs[k].finished_at # 0

\* C8: once a RunRecord carries a completion time, no step writes its
\* status or completion time again.
C8_TerminalWrittenOnce ==
  [][\A k \in 1..Len(runs) :
       runs[k].finished_at # 0 =>
         /\ runs'[k].status = runs[k].status
         /\ runs'[k].finished_at = runs[k].finished_at]_vars

\* C9: the options a webhook handler applies to the items of run R are the
\* ones the submission that started R persists.
C9_OptionsAreThePersistedOnes ==
  \A h \in H, g \in G :
    mlPromise[h] # "none" /\ Truthy(gRun[g]) /\ gRun[g] = hRunId[h] =>
      hOpts[h] = OptsOf(MetaOf(gBody[g]))

(***************************************************************************)
(* Claims about the dispatcher, checked under SpecDispatch.                *)
(***************************************************************************)
Indexes(h) == 0..(NItems(h) - 1)

Throwing(h) == {x \in Indexes(h) : mlItems[h][x + 1] = "throw"}

\* mapLimit was called and no iterator invocation is pending any more
Quiescent(h) == mlPromise[h] # "none" /\ InFlight(h) = {}

C2_EveryItemAttempted ==
  Quiescent(1) => \A x \in Indexes(1) : invoked[1][x] >= 1

\* C3: when no invocation throws, no index is ever passed to the iterator
\* twice, a run at rest has resolved, and mapLimit resolves only after each
\* of the N indexes was invoked exactly once and has returned; for every N
\* and every limit.
C3_ExactlyOnceThenResolve ==
  (mlPromise[1] # "none" /\ Throwing(1) = {}) =>
    /\ \A x \in Indexes(1) : invoked[1][x] <= 1
    /\ mlPromise[1] # "rejected"
    /\ Quiescent(1) => mlPromise[1] = "resolved"
    /\ mlPromise[1] = "resolved" =>
         \A x \in Indexes(1) : invoked[1][x] = 1 /\ outcome[1][x] = "returned"

\* a resolved run of three or more items under a limit <= 0 (one worker)
C3_Witness ==
  /\ mlPromise[1] = "resolved"
  /\ NItems(1) >= 3
  /\ mlLimit[1] <= 0
  /\ \A x \in Indexes(1) : invoked[1][x] = 1

\* a resolved run whose limit exceeds the number of items
C3_WitnessWide ==
  /\ mlPromise[1] = "resolved"
  /\ NItems(1) = 2
  /\ mlLimit[1] = 3

\* C4: at every moment the iterator invocations started and not finished
\* number at most max(1, limit).
C4_InFlightBounded ==
  mlPromise[1] # "none" =>
    Cardinality({x \in Indexes(1) : outcome[1][x] = "running"})
      <= (IF mlLimit[1] >= 1 THEN mlLimit[1] ELSE 1)

\* the bound is reached: three invocations in flight under limit 3 with
\* items still unclaimed
C4_Witness ==
  /\ mlLimit[1] = 3
  /\ Cardinality({x \in Indexes(1) : outcome[1][x] = "running"}) = 3
  /\ mlNext[1] < NItems(1)

(***************************************************************************)
(* Claims about upsertLead, checked under SpecUpsert.                      *)
(***************************************************************************)
\* the identity keys of an incoming record: place id, derived domain, phone
KeysOf(base) ==
  [google_place_id |-> base.google_place_id,
   domain |-> domainFrom(base.website),
   phone |-> base.phone]

KeyNames == {"google_place_id", "domain", "phone"}

Present(v) == v # NULL /\ v # UNDEF

NonDegenerate(base) == \E c \in KeyNames : Present(KeysOf(base)[c])

\* the stored rows equal to the incoming record on a key it carries
SameLead(rows, base) ==
  {k \in 1..Len(rows) :
     \E c \in KeyNames :
       Present(KeysOf(base)[c]) /\ rows[k][c] = KeysOf(base)[c]}

\* C5: the same item processed twice in sequence, with at least one of place
\* id, derived domain and phone present: the second upsertLead adds no row,
\* and when the first created the row the second updates that row and
\* returns its id.
C5_SecondUpsertUpdates ==
  \A k \in 1..(Len(uResults) - 1) :
    LET a == uResults[k]
        b == uResults[k + 1]
    IN (a.status = "ok" /\ b.status = "ok" /\ a.base = b.base
        /\ NonDegenerate(a.base))
       => /\ b.nrows = a.nrows
          /\ ~b.created
          /\ a.created => b.id = a.id

\* a record with a website only is upserted twice: created, then updated
C5_Witness ==
  /\ Len(uResults) = 2
  /\ uResults[1].status = "ok" /\ uResults[1].created
  /\ uResults[2].status = "ok" /\ uResults[2].id = uResults[1].id
  /\ uResults[2].base = uResults[1].base
  /\ uResults[1].base.google_place_id = NULL
  /\ uResults[1].base.phone = NULL
  /\ uResults[1].base.website # UNDEF
  /\ Len(leads) = 1

\* C10: upsertLead updates a stored Lead in place and returns its id exactly
\* when some stored Lead equals the incoming record on a key the record
\* carries; otherwise it inserts one new Lead and returns the new id.  The
\* table grows by 0 on a match and by 1 otherwise.
C10_UpdateIffKeyMatch ==
  [][(uPc = "write" /\ uPc' = "idle" /\ uResults'[Len(uResults')].status = "ok")
       => LET id == uResults'[Len(uResults')].id
              same == SameLead(leads, uBase)
          IN /\ same # {} =>
                  /\ Len(leads') = Len(leads)
                  /\ id \in same
                  /\ leads'[id].phone = Col(uBase.phone, leads[id].phone)
                  /\ leads'[id].website = Col(uBase.website, leads[id].website)
                  /\ \A k \in 1..Len(leads) : k # id => leads'[k] = leads[k]
             /\ same = {} =>
                  /\ Len(leads') = Len(leads) + 1
                  /\ id = Len(leads')
                  /\ SubSeq(leads', 1, Len(leads)) = leads
                  /\ leads'[id].phone = Col(uBase.phone, NULL)]_vars

\* both branches were taken: a call that matched on the domain alone (the
\* place ids and phones differ) updated, after a call that inserted
C10_Witness ==
  /\ Len(uResults) = 2
  /\ uResults[1].status = "ok" /\ uResults[1].created
  /\ uResults[2].status = "ok" /\ ~uResults[2].created
  /\ uResults[2].base.website # uResults[1].base.website
  /\ uResults[2].base.phone # uResults[1].base.phone
  /\ uResults[1].base.google_place_id = NULL
  /\ Len(leads) = 1

(***************************************************************************)
(* The scoring functions on their own (src/scoring.js:33-61): one call of  *)
(* computeTechScore, subscores or tierFromScore on arguments drawn from    *)
(* bounded sets, and tierFromScore on the final score of subscores as      *)
(* rescore applies it (src/server.js:203)                                  *)
(***************************************************************************)
MaxScore == 100      \* Math.min(100, score): the largest score
MaxRating10 == 51    \* the largest rating drawn, in tenths of a star
MaxReviews == 201    \* the largest review count drawn
MaxBoost == 105      \* the largest specialty boost drawn; the smallest is
                     \* as far below 0 as this is above 100

\* the calls drawn: every flag combination, every tech score, ratings and
\* review counts on both sides of every threshold, boosts inside and
\* outside 0..100, every score of 0..100
ScoreCalls ==
  [fn : {"computeTechScore"},
   f : [has_online_scheduling : BOOLEAN, has_patient_portal : BOOLEAN,
        has_text_reminders : BOOLEAN, has_digital_forms : BOOLEAN,
        has_online_payments : BOOLEAN, has_virtual_consults : BOOLEAN,
        has_advanced_imaging : BOOLEAN]]
  \cup [fn : {"subscores"},
        techScore : 0..MaxScore,
        rating10 : {0, 30, 34, 35, 36, 40, 45, 49, 50, MaxRating10},
        reviews : {0, 9, 10, 24, 25, 49, 50, 99, 100, 120, 199, 200,
                   MaxReviews},
        hasBooking : BOOLEAN,
        specialtyBoost : {100 - MaxBoost, 0, 40, 60, 100, MaxBoost}]
  \cup [fn : {"tierFromScore"}, score : 0..MaxScore]

\* computeTechScore(f) returns
ScoreComputeTech ==
  /\ scArgs.fn = "computeTechScore" /\ scOut = <<>>
  /\ scOut' = [score |-> computeTechScore(scArgs.f)]
  /\ UNCHANGED <<scArgs, retry, mlVars, storeVars, upVars, extVars, now,
                 genVars, hookVars, it>>

\* subscores({techScore, rating, reviews, hasBooking, specialtyBoost})
\* returns
ScoreSubscores ==
  /\ scArgs.fn = "subscores" /\ scOut = <<>>
  /\ scOut' = [ss |-> subscores(scArgs.techScore, scArgs.rating10,
                                scArgs.reviews, scArgs.hasBooking,
                                scArgs.specialtyBoost)]
  /\ UNCHANGED <<scArgs, retry, mlVars, storeVars, upVars, extVars, now,
                 genVars, hookVars, it>>

\* src/server.js:203: const { tier, qual } = tierFromScore(ss.final)
ScoreTierOfFinal ==
  /\ scArgs.fn = "subscores" /\ DOMAIN scOut = {"ss"}
  /\ scOut' = [ss |-> scOut.ss, tq |-> tierFromScore(scOut.ss.final)]
  /\ UNCHANGED <<scArgs, retry, mlVars, storeVars, upVars, extVars, now,
                 genVars, hookVars, it>>

\* tierFromScore(score) returns
ScoreTier ==
  /\ scArgs.fn = "tierFromScore" /\ scOut = <<>>
  /\ scOut' = [tq |-> tierFromScore(scArgs.score)]
  /\ UNCHANGED <<scArgs, retry, mlVars, storeVars, upVars, extVars, now,
                 genVars, hookVars, it>>

InitScore ==
  /\ InitStoreEmpty
  /\ InitUpIdle
  /\ jobs = [r \in AllRuns |-> "none"]
  /\ dsItems = [d \in AllDatasets |-> <<>>]
  /\ now = 0 /\ faults = 0
  /\ gpc = [g \in G |-> "idle"]
  /\ gBody = [g \in G |-> <<>>]
  /\ gRun = [g \in G |-> NULL]
  /\ gResp = [g \in G |-> 0]
  /\ hpc = [h \in H |-> "idle"]
  /\ hBody = [h \in H |-> <<>>]
  /\ hResp = [h \in H |-> 0]
  /\ hRunId = [h \in H |-> NULL]
  /\ hDs = [h \in H |-> NULL]
  /\ hOpts = [h \in H |-> DefaultOpts]
  /\ hLog = [h \in H |-> "none"]
  /\ it = [h \in H |-> [w \in W |-> Idle]]
  /\ mlItems = [h \in H |-> <<>>]
  /\ mlLimit = [h \in H |-> 0]
  /\ mlNext = [h \in H |-> 0]
  /\ mlPromise = [h \in H |-> "none"]
  /\ wpc = [h \in H |-> [w \in W |-> "none"]]
  /\ widx = [h \in H |-> [w \in W |-> 0]]
  /\ invoked = [h \in H |-> <<>>]
  /\ outcome = [h \in H |-> <<>>]
  /\ scArgs \in ScoreCalls
  /\ scOut = <<>>
  /\ retry = <<>>

NextScore ==
  \/ ScoreComputeTech
  \/ ScoreSubscores
  \/ ScoreTierOfFinal
  \/ ScoreTier

SpecScore == InitScore /\ [][NextScore]_vars

(***************************************************************************)
(* withRetry on its own (src/server.js:52-64): one call, with fn an        *)
(* operation that at each invocation returns a value or throws an error    *)
(* with some message                                                       *)
(***************************************************************************)
DefaultTries == 3    \* { tries = 3, ... }
MaxTries == 4        \* the largest tries argument drawn

\* a plausible slip: every error is retried
TransientAlways(msg) == TRUE

\* line 59: /fetch failed|ECONN|ENOTFOUND|ETIMEDOUT|socket hang up/i.test(msg)
Transient(msg) ==
  \E p \in {"fetch failed", "econn", "enotfound", "etimedout",
            "socket hang up"} : Includes(ToLower(msg), p)

\* line 56: fn() resolves; its value is returned
RetryFnReturns ==
  /\ retry # <<>> /\ retry.pc = "call"
  /\ retry' = [retry EXCEPT !.pc = "returned", !.result = "row",
                            !.calls = Append(@, [ok |-> TRUE, v |-> "row"])]
  /\ UNCHANGED <<scArgs, scOut, mlVars, storeVars, upVars, extVars, now,
                 genVars, hookVars, it>>

\* lines 56-60, 63: fn() rejects with an error of message msg; lastErr is
\* set; a message that is not transient breaks the loop, and lastErr is
\* thrown; else the sleep starts
RetryFnThrows ==
  /\ retry # <<>> /\ retry.pc = "call"
  /\ \E msg \in {"TypeError: fetch failed", "read ECONNRESET",
                 "Socket Hang Up", "duplicate key value", "JWT expired"} :
       retry' = [retry EXCEPT
                   !.lastErr = msg,
                   !.calls = Append(@, [ok |-> FALSE, v |-> msg]),
                   !.pc = IF Transient(msg) THEN "sleep" ELSE "threw",
                   !.result = IF Transient(msg) THEN @ ELSE msg]
  /\ UNCHANGED <<scArgs, scOut, mlVars, storeVars, upVars, extVars, now,
                 genVars, hookVars, it>>

\* lines 55, 60, 63: the sleep is over; i++; fn is invoked again while
\* i < tries, else lastErr is thrown
RetrySleepOver ==
  /\ retry # <<>> /\ retry.pc = "sleep"
  /\ retry' = [retry EXCEPT
                 !.i = @ + 1,
                 !.pc = IF retry.i + 1 < retry.tries THEN "call" ELSE "threw",
                 !.result = IF retry.i + 1 < retry.tries THEN @
                            ELSE retry.lastErr]
  /\ UNCHANGED <<scArgs, scOut, mlVars, storeVars, upVars, extVars, now,
                 genVars, hookVars, it>>

\* lines 53-55, 63: withRetry(fn) or withRetry(fn, {tries}) is called; with
\* no i < tries the loop is skipped and lastErr, undefined, is thrown
InitRetry ==
  /\ InitStoreEmpty
  /\ InitUpIdle
  /\ jobs = [r \in AllRuns |-> "none"]
  /\ dsItems = [d \in AllDatasets |-> <<>>]
  /\ now = 0 /\ faults = 0
  /\ gpc = [g \in G |-> "idle"]
  /\ gBody = [g \in G |-> <<>>]
  /\ gRun = [g \in G |-> NULL]
  /\ gResp = [g \in G |-> 0]
  /\ hpc = [h \in H |-> "idle"]
  /\ hBody = [h \in H |-> <<>>]
  /\ hResp = [h \in H |-> 0]
  /\ hRunId = [h \in H |-> NULL]
  /\ hDs = [h \in H |-> NULL]
  /\ hOpts = [h \in H |-> DefaultOpts]
  /\ hLog = [h \in H |-> "none"]
  /\ it = [h \in H |-> [w \in W |-> Idle]]
  /\ mlItems = [h \in H |-> <<>>]
  /\ mlLimit = [h \in H |-> 0]
  /\ mlNext = [h \in H |-> 0]
  /\ mlPromise = [h \in H |-> "none"]
  /\ wpc = [h \in H |-> [w \in W |-> "none"]]
  /\ widx = [h \in H |-> [w \in W |-> 0]]
  /\ invoked = [h \in H |-> <<>>]
  /\ outcome = [h \in H |-> <<>>]
  /\ scArgs = <<>> /\ scOut = <<>>
  /\ \E opts \in {<<>>} \cup [tries : 0..MaxTries] :
       LET tries == IF opts = <<>> THEN DefaultTries ELSE opts.tries
       IN retry = [opts |-> opts, tries |-> tries, i |-> 0,
                   lastErr |-> UNDEF, calls |-> <<>>,
                   pc |-> IF 0 < tries THEN "call" ELSE "threw",
                   result |-> UNDEF]

NextRetry ==
  \/ RetryFnReturns
  \/ RetryFnThrows
  \/ RetrySleepOver

\* fn settles and the timer of sleep fires: a call that can go on does
SpecRetry == InitRetry /\ [][NextRetry]_vars /\ WF_vars(NextRetry)

(***************************************************************************)
(* Claims about the processing of one delivery, checked under SpecBatch.   *)
(***************************************************************************)
\* the step taken is one of worker w of the handler
StepOf(w) == <<wpc[1][w], widx[1][w], it[1][w]>>' # <<wpc[1][w], widx[1][w], it[1][w]>>

\* C11: the step that starts the processing of "Aspen Dental of
\* Springfield" ends the invocation and leaves every table as it was when
\* avoidChains is true; when avoidChains is false it goes on to the write of
\* upsertLead (or throws, when the store fails on the lookup).
C11_ChainFilter ==
  [][\A w \in W :
       At(1, w, "begin") /\ mlItems[1][widx[1][w] + 1] = ItemAspen /\ StepOf(w)
         => IF hOpts[1].avoidChains
            THEN /\ storeVars' = storeVars
                 /\ outcome'[1][widx[1][w]] = "returned"
            ELSE \/ wpc'[1][w] = "await" /\ it'[1][w].pc = "write"
                 \/ outcome'[1][widx[1][w]] = "thrown"]_vars

\* both items were handled with avoidChains true: the chain's item returned
\* and the only Lead is the other business
C11_Witness ==
  /\ hOpts[1].avoidChains
  /\ mlItems[1] = <<ItemSmiles, ItemAspen>>
  /\ outcome[1][0] = "returned" /\ outcome[1][1] = "returned"
  /\ Len(leads) = 1 /\ leads[1].name = ItemSmiles.title

\* the text holds keyword k, letter case aside
Holds(text, k) == Includes(ToLower(text), ToLower(k))

\* the condition of C12 on the options opts and the acquired text
Passes(opts, text) ==
  /\ \/ opts.includeKeywords = <<>>
     \/ \E k \in 1..Len(opts.includeKeywords) : Holds(text, opts.includeKeywords[k])
  /\ \/ opts.excludeKeywords = <<>>
     \/ \A k \in 1..Len(opts.excludeKeywords) : ~Holds(text, opts.excludeKeywords[k])

\* C12: the step that acquires the text of an item goes on to enrichment
\* exactly when the acquired text passes the include and exclude lists: an
\* item that goes on carries a text that passes; an item that returns has a
\* text (the page's, or none when the fetches failed) that does not; when
\* the page was acquired the two cases are decided by the page's text.
C12_KeywordFilter ==
  [][\A w \in W :
       At(1, w, "text") /\ StepOf(w)
         => LET page == SiteContent(it[1][w].base.website)
                on == wpc'[1][w] = "await" /\ widx'[1][w] = widx[1][w]
                        /\ it'[1][w].pc \in {"deep", "llm"}
            IN /\ on \/ outcome'[1][widx[1][w]] = "returned"
               /\ on => Passes(hOpts[1], it'[1][w].siteText)
               /\ ~on => ~Passes(hOpts[1], page) \/ ~Passes(hOpts[1], "")
               /\ faults' = faults => (on <=> Passes(hOpts[1], page))]_vars

\* with the include list <<"CEREC">> the business whose page says "CEREC"
\* was enriched and the other one only upserted
C12_Witness ==
  /\ hOpts[1].includeKeywords = <<"CEREC">> /\ ~hOpts[1].avoidChains
  /\ mlItems[1] = <<ItemSmiles, ItemAspen>>
  /\ outcome[1][0] = "returned" /\ outcome[1][1] = "returned"
  /\ Len(leads) = 2 /\ Len(techs) = 1

ScoreFromStored(lds, tcs, id) ==
  LET k == SelectOne(tcs, "lead_id", id)
      tech == IF k = NoRow THEN Idle.tech
              ELSE [found |-> TRUE, flags |-> tcs[k].flags,
                    specialties |-> tcs[k].llm_specialties]
  IN ScoreOf(lds[id].rating, lds[id].review_count, tech)

\* the Score stored on Lead id
ScoreStored(lds, id) ==
  [tech_score |-> lds[id].tech_score, tech_tier |-> lds[id].tech_tier,
   qualification_status |-> lds[id].qualification_status,
   final_score |-> lds[id].final_score]

\* C14: when an item's processing that has written the Lead row returns,
\* the Score stored on the Lead is the one the scoring functions give for
\* the Lead's stored rating and review count and its stored TechAnalysis.
C14_ScoreFollowsStoredData ==
  [][\A w \in W :
       (/\ wpc[1][w] = "await" /\ StepOf(w)
        /\ it[1][w].id # NoRow
        /\ outcome'[1][widx[1][w]] = "returned")
         => ScoreStored(leads', it[1][w].id)
              = ScoreFromStored(leads', techs', it[1][w].id)]_vars

(***************************************************************************)
(* Claims about the handlers, checked under Spec.                          *)
(***************************************************************************)
\* the result-set id a payload embeds, "" when it embeds none
Embedded(body) ==
  IF Truthy(Field(body, "resource_defaultDatasetId"))
    THEN body.resource_defaultDatasetId
  ELSE IF Truthy(Field(body, "defaultDatasetId")) THEN body.defaultDatasetId
  ELSE IF Truthy(Field(body, "datasetId")) THEN body.datasetId
  ELSE ""

\* C15: a handler whose payload embeds a result-set id goes from the
\* payload straight to the fetch of that dataset; it looks the run up only
\* when the payload embeds none and carries a run id; the step at which it
\* finds no result-set id ends it; and up to there it has not run the
\* dispatcher and its steps leave every table as it was.
C15_DatasetIdResolution ==
  [][\A h \in H :
       hpc'[h] # hpc[h] =>
         /\ hpc[h] = "resolve" /\ Embedded(hBody[h]) # "" =>
              hpc'[h] = "list" /\ hDs'[h] = LastSegment(Embedded(hBody[h]))
         /\ hpc'[h] = "runGet" =>
              Embedded(hBody[h]) = "" /\ Truthy(hRunId'[h])
         /\ hpc[h] = "resolve" /\ Embedded(hBody[h]) = ""
              /\ ~Truthy(hRunId'[h]) => hpc'[h] = "done"
         /\ hpc[h] = "runGet" /\ ~Truthy(hDs'[h]) => hpc'[h] = "done"
         /\ hpc[h] \in {"ack", "resolve", "runGet"} =>
              /\ mlPromise'[h] = "none"
              /\ storeVars' = storeVars]_vars

\* a handler looked up a run the job service does not know and stopped
C15_Witness ==
  \E h \in H :
    /\ hBody[h] = [id |-> "r0"]
    /\ hpc[h] = "done" /\ hLog[h] = "unresolved"
    /\ mlPromise[h] = "none"

\* C16: the step that receives a submission without a location answers it
\* 400 and ends it, with no run started and no table, run or dataset of the
\* job service changed; a submission answered 400 never has a run.
C16_MissingLocation ==
  [][\A g \in G :
       /\ (gpc[g] = "idle" /\ gpc'[g] # "idle"
             /\ ~Truthy(Field(gBody'[g], "location")))
            => /\ gResp'[g] = 400 /\ gpc'[g] = "done"
               /\ storeVars' = storeVars
               /\ jobs' = jobs /\ dsItems' = dsItems
       /\ gResp'[g] = 400 => gRun'[g] = NULL /\ gpc'[g] = "done"]_vars

\* a submission without a location was answered 400; nothing is stored and
\* no run exists
C16_Witness ==
  \E g \in G :
    /\ gBody[g] = <<>> /\ gResp[g] = 400 /\ gpc[g] = "done"
    /\ runs = <<>> /\ Started = {}

(***************************************************************************)
(* Claims about the scoring functions, checked under SpecScore             *)
(***************************************************************************)
\* the call of the worked example: 4.5 stars, 120 reviews, a booking link,
\* tech score 35, boost 60
ExampleCall ==
  [fn |-> "subscores", techScore |-> 35, rating10 |-> 45, reviews |-> 120,
   hasBooking |-> TRUE, specialtyBoost |-> 60]

\* C17: what subscores returns is the stated one: booking 100 or 0, rating
\* the clamped linear map of 3.5..5.0 stars onto 0..100 (held times three),
\* reviews the stated steps, specialty the boost clamped to 0..100, and
\* final the integer nearest to 0.40 tech + 0.15 booking + 0.15 rating
\* + 0.10 reviews + 0.20 specialty, a half going up; the worked example
\* gives 59 and SILVER/WARM.
C17_SubscoresFormula ==
  (scArgs.fn = "subscores" /\ scOut # <<>>) =>
    LET a == scArgs
        ss == scOut.ss
        booking == IF a.hasBooking THEN 100 ELSE 0
        rating3 == IF a.rating10 <= 35 THEN 0
                   ELSE IF a.rating10 >= 50 THEN 300
                   ELSE (a.rating10 - 35) * 20
        rev == CASE a.reviews >= 200 -> 100
                 [] a.reviews \in 100..199 -> 80
                 [] a.reviews \in 50..99 -> 60
                 [] a.reviews \in 25..49 -> 40
                 [] a.reviews \in 10..24 -> 20
                 [] OTHER -> 0
        special == IF a.specialtyBoost < 0 THEN 0
                   ELSE IF a.specialtyBoost > 100 THEN 100
                   ELSE a.specialtyBoost
        sum300 == 120 * a.techScore + 45 * booking + 15 * rating3
                    + 30 * rev + 60 * special
    IN /\ ss.sTech = a.techScore /\ ss.sBooking = booking
       /\ ss.sRating3 = rating3 /\ ss.sReviews = rev
       /\ ss.sSpecial = special
       /\ 300 * ss.final - 150 <= sum300 /\ sum300 < 300 * ss.final + 150
       /\ a = ExampleCall =>
            /\ ss.final = 59
            /\ "tq" \in DOMAIN scOut
                 => scOut.tq = [tier |-> "SILVER", qual |-> "WARM"]

\* the worked example has been scored and tiered
C17_Witness ==
  /\ scArgs = ExampleCall
  /\ DOMAIN scOut = {"ss", "tq"}
  /\ scOut.ss.final = 59 /\ scOut.tq.tier = "SILVER" /\ scOut.tq.qual = "WARM"

\* C18: final is an integer of 0..100 for every tech score of 0..100,
\* every rating, review count, booking value and boost; a rating of 3.5
\* stars or less has rating sub-score 0, one of 5.0 stars or more has 100
\* (held times three: 300).
C18_FinalInRange ==
  (scArgs.fn = "subscores" /\ scOut # <<>>) =>
    /\ scOut.ss.final \in 0..100
    /\ scArgs.rating10 <= 35 => scOut.ss.sRating3 = 0
    /\ scArgs.rating10 >= 50 => scOut.ss.sRating3 = 300

\* the upper end is reached: the largest arguments, with a boost above 100
\* and a rating above 5.0 stars, give 100
C18_Witness ==
  /\ scArgs.fn = "subscores" /\ scOut # <<>>
  /\ scArgs.techScore = 100 /\ scArgs.rating10 > 50
  /\ scArgs.specialtyBoost > 100 /\ scArgs.hasBooking
  /\ scArgs.reviews > 200
  /\ scOut.ss.final = 100 /\ scOut.ss.sRating3 = 300

\* the weight the claim gives each flag
StatedWeight ==
  [has_online_scheduling |-> 25, has_patient_portal |-> 20,
   has_text_reminders |-> 15, has_digital_forms |-> 10,
   has_online_payments |-> 10, has_virtual_consults |-> 10,
   has_advanced_imaging |-> 10]

RECURSIVE StatedSum(_, _)
StatedSum(f, names) ==
  IF names = <<>> THEN 0
  ELSE (IF f[Head(names)] THEN StatedWeight[Head(names)] ELSE 0)
         + StatedSum(f, Tail(names))

\* C19: for each of the 128 flag combinations computeTechScore returns the
\* sum of the stated weights of the true flags, at most 100, and turning a
\* false flag true does not lower what it returns; scheduling with
\* advanced imaging alone gives 35.
C19_TechScoreSum ==
  (scArgs.fn = "computeTechScore" /\ scOut # <<>>) =>
    LET f == scArgs.f IN
    /\ scOut.score = StatedSum(f, FlagNames)
    /\ scOut.score <= 100
    /\ \A k \in 1..Len(FlagNames) :
         ~f[FlagNames[k]] =>
           computeTechScore([f EXCEPT ![FlagNames[k]] = TRUE]) >= scOut.score
    /\ (\A k \in 1..Len(FlagNames) :
          f[FlagNames[k]] <=> FlagNames[k] \in {"has_online_scheduling",
                                                "has_advanced_imaging"})
         => scOut.score = 35

\* scheduling with advanced imaging alone has been scored 35
C19_Witness ==
  /\ scArgs.fn = "computeTechScore" /\ scOut # <<>>
  /\ scArgs.f.has_online_scheduling /\ scArgs.f.has_advanced_imaging
  /\ ~scArgs.f.has_patient_portal /\ ~scArgs.f.has_text_reminders
  /\ ~scArgs.f.has_digital_forms /\ ~scArgs.f.has_online_payments
  /\ ~scArgs.f.has_virtual_consults
  /\ scOut.score = 35

\* the five pairs the claim names
StatedPairs ==
  {[tier |-> "PLATINUM", qual |-> "HOT"], [tier |-> "GOLD", qual |-> "HOT"],
   [tier |-> "SILVER", qual |-> "WARM"], [tier |-> "BRONZE", qual |-> "COOL"],
   [tier |-> "BASIC", qual |-> "COLD"]}

\* C20: every score of 0..100 gets one of the five pairs, the one of its
\* band: 80 and above PLATINUM/HOT, 60..79 GOLD/HOT, 40..59 SILVER/WARM,
\* 20..39 BRONZE/COOL, 0..19 BASIC/COLD.
C20_TierBands ==
  (scArgs.fn = "tierFromScore" /\ scOut # <<>>) =>
    LET s == scArgs.score
        tq == scOut.tq
    IN /\ tq \in StatedPairs
       /\ tq = [tier |-> "PLATINUM", qual |-> "HOT"] <=> s \in 80..100
       /\ tq = [tier |-> "GOLD", qual |-> "HOT"] <=> s \in 60..79
       /\ tq = [tier |-> "SILVER", qual |-> "WARM"] <=> s \in 40..59
       /\ tq = [tier |-> "BRONZE", qual |-> "COOL"] <=> s \in 20..39
       /\ tq = [tier |-> "BASIC", qual |-> "COLD"] <=> s \in 0..19

\* a score on a lower bound has been tiered: 60 is GOLD/HOT
C20_Witness ==
  /\ scArgs.fn = "tierFromScore" /\ scOut # <<>>
  /\ scArgs.score = 60
  /\ scOut.tq.tier = "GOLD" /\ scOut.tq.qual = "HOT"

(***************************************************************************)
(* More claims about the processing of one delivery, checked under         *)
(* SpecBatch                                                               *)
(***************************************************************************)
\* two Lead rows share a non-null identity key
SharesKey(a, b) ==
  \/ Truthy(a.google_place_id) /\ a.google_place_id = b.google_place_id
  \/ Truthy(a.domain) /\ a.domain = b.domain
  \/ Truthy(a.phone) /\ a.phone = b.phone

\* C21: under every interleaving of the lookups and inserts of the items of
\* a batch, no two Lead rows share a non-null place id, domain or phone.
C21_SingleLeadForSharedKey ==
  \A j \in 1..Len(leads), k \in 1..Len(leads) :
    SharesKey(leads[j], leads[k]) => j = k

\* C22: the classifier step never aborts the item: whatever the classifier
\* answers or raises, the step that ends it leaves the item about to
\* persist its TechAnalysis, with specialty tags and notes (empty ones on a
\* failure), and the item is not thrown.
C22_ClassifierAbsorbed ==
  [][\A w \in W :
       (At(1, w, "llm") /\ StepOf(w))
         => /\ wpc'[1][w] = "await"
            /\ it'[1][w].pc = "techSelect"
            /\ outcome'[1][widx[1][w]] = "running"]_vars

NetworkClass(msg) ==
  msg \in {"TypeError: fetch failed", "read ECONNRESET", "Socket Hang Up"}

\* what the claim says of a call of withRetry, as far as it has come
RetryAsStated ==
  LET c == retry.calls
      n == Len(c)
  IN /\ n <= retry.tries
     /\ retry.opts = <<>> => n <= 3
     /\ \A k \in 1..(n - 1) : ~c[k].ok /\ NetworkClass(c[k].v)
     /\ retry.pc = "returned" => n >= 1 /\ c[n].ok /\ retry.result = c[n].v
     /\ (n >= 1 /\ c[n].ok) => retry.pc = "returned"
     /\ (n >= 1 /\ ~c[n].ok /\ ~NetworkClass(c[n].v)) => retry.pc = "threw"
     /\ retry.pc = "threw" =>
          /\ n = retry.tries \/ (n >= 1 /\ ~NetworkClass(c[n].v))
          /\ n >= 1 => ~c[n].ok /\ retry.result = c[n].v

\* C24: withRetry invokes fn at most tries times (3 when tries is not
\* given), invokes it again only after a failure with a transient message,
\* returns the value of the first invocation that succeeds and invokes
\* nothing after it, ends at the first failure that is not transient, when
\* it fails throws the error of the last invocation, and always ends.
C24_WithRetry ==
  /\ [](RetryAsStated)
  /\ <>(retry.pc \in {"returned", "threw"})

\* a call without a tries argument gave up after three transient failures
\* and threw the error of the third
C24_Witness ==
  /\ retry.opts = <<>> /\ retry.pc = "threw"
  /\ Len(retry.calls) = 3
  /\ retry.result = retry.calls[3].v /\ NetworkClass(retry.result)

(***************************************************************************)
(* More claims about the handlers, checked under Spec                      *)
(***************************************************************************)
\* C25: a RunRecord has status succeeded only when the crawl run of its run
\* id succeeded: the notification of a failed run never leaves it
\* succeeded.
C25_SucceededOnlyIfRunSucceeded ==
  \A k \in 1..Len(runs) :
    runs[k].status = "succeeded" => jobs[runs[k].run_id] = "SUCCEEDED"

\* the place of a position of the iterator in the order of its awaits
Rank(pc) ==
  CASE pc = "begin" -> 1 [] pc = "write" -> 2 [] pc = "text" -> 3
    [] pc = "deep" -> 4 [] pc = "llm" -> 5 [] pc = "techSelect" -> 6
    [] pc = "techWrite" -> 7 [] pc = "rsLead" -> 8 [] pc = "rsTech" -> 9
    [] pc = "rsUpdate" -> 10 [] pc = "rsEvent" -> 11 [] pc = "created" -> 12
    [] OTHER -> 0

\* the 'created' event of an item of the delivery for Lead id
CreatedEvent(id) ==
  Event(id, "created", hRunId[1] \o " " \o hDs[1])

\* bag b is bag a with one more copy of e
OneMore(a, b, e) ==
  /\ BagCardinality(b) = BagCardinality(a) + 1
  /\ CopiesIn(e, b) = CopiesIn(e, a) + 1

\* C26: the steps of one item come in the order upsert of the Lead, write
\* of the TechAnalysis, update of the Score, 'rescored' event, 'created'
\* event: the Lead table is written only by the upsert and the Score
\* update, the TechAnalysis table only by its write, events only by the
\* deep-contacts, 'rescored' and 'created' steps; the step that appends the
\* 'created' event finds the item's TechAnalysis row, its Score and its
\* 'rescored' event stored, appends exactly that one event, with the run id
\* and the dataset id, and ends the item; an item ends in no other way
\* than by a filter or by that step.
C26_WriteOrder ==
  [][\A w \in W :
       (wpc[1][w] = "await" /\ StepOf(w)) =>
         LET f == it[1][w]
             after == outcome'[1][widx[1][w]]
         IN /\ after = "running" => Rank(it'[1][w].pc) > Rank(f.pc)
            /\ leads' # leads => f.pc \in {"write", "rsUpdate"}
            /\ techs' # techs => f.pc = "techWrite"
            /\ events' # events => f.pc \in {"deep", "rsEvent", "created"}
            /\ (f.pc = "rsEvent" /\ after = "running")
                 => OneMore(events, events', Event(f.id, "rescored", "score"))
            /\ after = "returned" => f.pc \in {"begin", "text", "created"}
            /\ (f.pc = "created" /\ after = "returned")
                 <=> OneMore(events, events', CreatedEvent(f.id))
            /\ f.pc = "created" =>
                 /\ SelectOne(techs, "lead_id", f.id) # NoRow
                 /\ leads[f.id].final_score # NoNum
                 /\ leads[f.id].tech_tier # NULL
                 /\ CopiesIn(Event(f.id, "rescored", "score"), events) >= 1
                 /\ Truthy(hRunId[1]) /\ Truthy(hDs[1])]_vars

\* the same business twice in a batch: one Lead, and one 'created' event
\* for each of the two items processed in full
C26_Witness ==
  /\ mlItems[1] = <<ItemSmiles, ItemSmiles>>
  /\ outcome[1][0] = "returned" /\ outcome[1][1] = "returned"
  /\ Len(leads) = 1 /\ leads[1].final_score # NoNum
  /\ CopiesIn(CreatedEvent(1), events) = 2
  /\ CopiesIn(Event(1, "rescored", "score"), events) = 2

\* C27: up to and including the keyword filter an item writes nothing but
\* its Lead row: its steps leave the TechAnalysis table and the events as
\* they were and change no Score field of any Lead, only the upsert step
\* writes the Lead table, and an item the keyword filter skips ends there,
\* with its Lead row in the store.
C27_KeywordSkipFrame ==
  [][\A w \in W :
       (/\ wpc[1][w] = "await" /\ StepOf(w)
        /\ it[1][w].pc \in {"begin", "write", "text"})
         => /\ techs' = techs /\ events' = events
            /\ it[1][w].pc # "write" => leads' = leads
            /\ \A k \in 1..Len(leads) :
                 ScoreStored(leads', k) = ScoreStored(leads, k)
            /\ \A k \in (Len(leads) + 1)..Len(leads') :
                 leads'[k].final_score = NoNum /\ leads'[k].tech_tier = NULL
            /\ (it[1][w].pc = "text"
                  /\ outcome'[1][widx[1][w]] = "returned")
                 => /\ it[1][w].id \in 1..Len(leads)
                    /\ it'[1][w].pc \in {"begin", "none"}]_vars

\* an item the include list skipped left its own Lead row, with no Score,
\* no TechAnalysis row and no event
C27_Witness ==
  /\ mlItems[1] = <<ItemSmiles, ItemAspen>>
  /\ hOpts[1].includeKeywords = <<"CEREC">>
  /\ outcome[1][1] = "returned"
  /\ \E k \in 1..Len(leads) :
       /\ leads[k].name = ItemAspen.title
       /\ leads[k].final_score = NoNum
       /\ SelectOne(techs, "lead_id", k) = NoRow
       /\ \A e \in BagToSet(events) : e.lead_id # k

(***************************************************************************)
(* More claims about upsertLead, checked under SpecUpsert                  *)
(***************************************************************************)
\* the record carries no identity key: no place id, no phone, and a
\* website that is absent or does not parse as a URL
KeyLess(base) ==
  /\ base.google_place_id = NULL /\ base.phone = NULL
  /\ base.website \in {UNDEF, "a.com"}

\* C28: upsertLead on a record without any identity key makes no lookup
\* and inserts: the call goes straight to its write, which appends one new
\* Lead row, leaves the others as they were and returns the new id.
C28_KeyLessInserts ==
  [][/\ (uPc = "idle" /\ uPc' # "idle" /\ KeyLess(uBase'))
          => uPc' = "write" /\ uExisting' = NoRow
     /\ (uPc = "write" /\ uPc' = "idle" /\ KeyLess(uBase)
           /\ uResults'[Len(uResults')].status = "ok")
          => /\ Len(leads') = Len(leads) + 1
             /\ SubSeq(leads', 1, Len(leads)) = leads
             /\ uResults'[Len(uResults')].id = Len(leads')
             /\ uResults'[Len(uResults')].created]_vars

\* the same record, with a website that does not parse and no other key,
\* was processed twice and the table has two rows
C28_Witness ==
  /\ Len(uResults) = 2 /\ Len(leads) = 2
  /\ uResults[1].status = "ok" /\ uResults[2].status = "ok"
  /\ uResults[1].base = uResults[2].base
  /\ KeyLess(uResults[1].base) /\ uResults[1].base.website = "a.com"
  /\ uResults[1].id = 1 /\ uResults[2].id = 2

====
